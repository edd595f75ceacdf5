-------------------------- MODULE ApplyPatchProofs --------------------------
(* Theorems about ApplyPatch for every set of sessions, HPAs, policies and
   suggestion lists. *)
EXTENDS ApplyPatch, FiniteSetTheorems, WellFoundedInduction, TLAPS

\* What every action that talks to the server keeps well-typed.
LEMMA StoredType ==
  ASSUME TypeOK, NEW h \in Hpas, NEW p, Admits(h, p)
  PROVE  Stored(h, p) \in Objects /\ hpa[h] \in Objects
<1> DEFINE spec == Patched(hpa[h].spec, p)
<1>1. hpa[h] \in Objects /\ revision + 1 \in Nat
  BY DEF TypeOK, Admits
<1>2. spec \in ValidSpecs
  BY DEF Admits
<1>3. Stored(h, p) = hpa[h]
      \/ Stored(h, p) = [hpa[h] EXCEPT !.spec = spec, !.rv = revision + 1]
  BY DEF Stored
<1> HIDE DEF spec
<1> QED
  BY <1>1, <1>2, <1>3 DEF Objects

LEMMA AllowedFinite ==
  ASSUME NEW s, NEW spec, NEW ps \in Seq(Patches)
  PROVE  Allowed(s, spec, ps) \in SUBSET Nat /\ IsFiniteSet(Allowed(s, spec, ps))
<1>1. DOMAIN ps = 1 .. Len(ps) /\ Len(ps) \in Nat
  OBVIOUS
<1>2. Allowed(s, spec, ps) \subseteq DOMAIN ps
  BY DEF Allowed, GuardFix
<1>3. IsFiniteSet(1 .. Len(ps))
  BY <1>1, FS_Interval
<1> QED
  BY <1>1, <1>2, <1>3, FS_Subset

LEMMA TypePersist ==
  ASSUME TypeOK, NEW s \in Sessions, NEW p, cur[s] \in Hpas, Admits(cur[s], p), Persist(s, p)
  PROVE  /\ hpa' \in [Hpas -> Objects \cup {None}]
         /\ revision' \in Nat
         /\ writes' \in [Sessions -> [Hpas -> Seq([base : Objects, to : Objects])]]
<1> DEFINE h == cur[s]
           W == [base : Objects, to : Objects]
           w == [base |-> hpa[h], to |-> Stored(h, p)]
<1>1. Stored(h, p) \in Objects /\ hpa[h] \in Objects
  BY StoredType
<1>2. writes \in [Sessions -> [Hpas -> Seq(W)]]
  BY DEF TypeOK
<1>3. w \in W
  BY <1>1
<1>4. writes' = [writes EXCEPT ![s][h] = Append(writes[s][h], w)]
  BY DEF Persist
<1>5. hpa' \in [Hpas -> Objects \cup {None}] /\ revision' \in Nat
  BY <1>1 DEF Persist, TypeOK
<1>6. writes' \in [Sessions -> [Hpas -> Seq(W)]]
  <2> HIDE DEF w, W
  <2>1. writes[s][h] \in Seq(W)
    BY <1>2
  <2>2. Append(writes[s][h], w) \in Seq(W)
    BY <2>1, <1>3
  <2> QED BY <1>2, <2>2, <1>4
<1> QED
  BY <1>5, <1>6

-----------------------------------------------------------------------------
(* Type correctness.  It needs one fact of control: between the review of an
   HPA and its outcome, cur is that HPA. *)

Processing == {"validate", "validateMerged", "prompt", "execute", "dryRunMerged",
               "patchMerged", "sequential"}

CurIsHpa == \A s \in Sessions : pc[s] \in Processing => cur[s] \in Hpas

ClusterType ==
  /\ hpa \in [Hpas -> Objects \cup {None}]
  /\ revision \in Nat
  /\ writes \in [Sessions -> [Hpas -> Seq([base : Objects, to : Objects])]]

InputType ==
  /\ opts \in [Sessions -> Options]
  /\ analysed \in [Sessions -> [Hpas -> Objects \cup {None}]]
  /\ plan \in [Sessions -> [Hpas -> PatchLists \cup {<<>>}]]

ControlType ==
  /\ pc \in [Sessions -> PCs]
  /\ todo \in [Sessions -> SUBSET Hpas]
  /\ cur \in [Sessions -> Hpas \cup {None}]
  /\ kept \in [Sessions -> SUBSET Nat]
  /\ \A s \in Sessions : IsFiniteSet(kept[s])
  /\ pending \in [Sessions -> SUBSET Nat]
  /\ reviewed \in [Sessions -> Nat]
  /\ consent \in [Sessions -> BOOLEAN]
  /\ CurIsHpa

ReportType ==
  /\ result \in [Sessions -> [Hpas -> Results]]
  /\ claimed \in [Sessions -> [Hpas -> Nat]]

TypeInv == ClusterType /\ InputType /\ ControlType /\ ReportType

LEMMA TypeInvIsTypeOK == TypeInv => TypeOK
BY DEF TypeInv, TypeOK, ClusterType, InputType, ControlType, ReportType

LEMMA TypeInit == Init => TypeInv
<1> SUFFICES ASSUME Init PROVE TypeInv
  OBVIOUS
<1>1. ClusterType
  BY DEF Init, ClusterType, Objects
<1>2. InputType
  BY DEF Init, InputType
<1>3. ControlType
  BY FS_EmptySet DEF Init, ControlType, CurIsHpa, Processing, PCs
<1>4. ReportType
  BY DEF Init, ReportType, Results
<1> QED
  BY <1>1, <1>2, <1>3, <1>4 DEF TypeInv

LEMMA TypeUnchanged ==
  /\ ClusterType /\ UNCHANGED <<cluster, writes>> => ClusterType'
  /\ InputType /\ UNCHANGED inputs => InputType'
  /\ ControlType /\ UNCHANGED control => ControlType'
  /\ ReportType /\ UNCHANGED reports => ReportType'
<1>1. ClusterType /\ UNCHANGED <<cluster, writes>> => ClusterType'
  BY DEF ClusterType, cluster
<1>2. InputType /\ UNCHANGED inputs => InputType'
  BY DEF InputType, inputs
<1>3. ControlType /\ UNCHANGED control => ControlType'
  BY DEF ControlType, control, CurIsHpa
<1>4. ReportType /\ UNCHANGED reports => ReportType'
  BY DEF ReportType, reports
<1> QED
  BY <1>1, <1>2, <1>3, <1>4

\* Steps that only move the session on, recording an outcome or not.
LEMMA TypeMove ==
  ASSUME TypeInv, NEW s \in Sessions, NEW r \in Results, NEW where \in PCs,
         where \in Processing => cur[s] \in Hpas,
         UNCHANGED <<todo, cur, kept, reviewed, claimed>>,
         pending' \in [Sessions -> SUBSET Nat],
         consent' \in [Sessions -> BOOLEAN],
         pc' = [pc EXCEPT ![s] = where],
         result' = result \/ result' = [result EXCEPT ![s][cur[s]] = r]
  PROVE  ControlType' /\ ReportType'
<1>1. ControlType'
  BY DEF TypeInv, ControlType, CurIsHpa
<1>2. ReportType'
  BY DEF TypeInv, ReportType
<1> QED
  BY <1>1, <1>2

\* The steps between a review and the live patches.
LEMMA TypeMoves ==
  ASSUME TypeInv, NEW s \in Sessions,
         ValidateOne(s) \/ ValidateMerged(s) \/ Answer(s) \/ Recheck(s) \/ DryRunMerged(s)
  PROVE  TypeInv'
<1> DEFINE Moves ==
      /\ UNCHANGED <<todo, cur, kept, reviewed, claimed>>
      /\ pending' \in [Sessions -> SUBSET Nat]
      /\ consent' \in [Sessions -> BOOLEAN]
      /\ \E r \in Results, where \in PCs :
           /\ where \in Processing => cur[s] \in Hpas
           /\ pc' = [pc EXCEPT ![s] = where]
           /\ result' = result \/ result' = [result EXCEPT ![s][cur[s]] = r]
<1>1. UNCHANGED <<cluster, inputs, writes>>
  BY DEF ValidateOne, ValidateMerged, Answer, Recheck, DryRunMerged
<1> USE DEF TypeInv, ControlType, CurIsHpa, Conclude, Goto
<1>2. CASE ValidateOne(s)
  <2>1. cur[s] \in Hpas
    BY <1>2 DEF ValidateOne, Processing
  <2>2. UNCHANGED <<todo, cur, kept, reviewed, claimed, consent>>
    BY <1>2 DEF ValidateOne
  <2>3. pending' \in [Sessions -> SUBSET Nat]
    BY <1>2 DEF ValidateOne
  <2>4. \E r \in Results, where \in PCs :
          /\ pc' = [pc EXCEPT ![s] = where]
          /\ result' = result \/ result' = [result EXCEPT ![s][cur[s]] = r]
    <3>1. \/ pc' = pc /\ result' = result
          \/ \E r \in {"rejected", "validated"} : Conclude(s, r)
          \/ \E w \in {"validateMerged", "prompt", "execute"} : Goto(s, w) /\ result' = result
      BY <1>2 DEF ValidateOne, LeaveValidation, AfterValidation
    <3>2. pc = [pc EXCEPT ![s] = pc[s]] /\ pc[s] \in PCs
      OBVIOUS
    <3>3. {"rejected", "validated"} \subseteq Results
          /\ {"next", "validateMerged", "prompt", "execute"} \subseteq PCs
      BY DEF Results, Failures, PCs
    <3> QED BY <3>1, <3>2, <3>3
  <2> QED BY <2>1, <2>2, <2>3, <2>4, <1>1, TypeMove, TypeUnchanged
<1>3. CASE ~ValidateOne(s)
  <2>1. cur[s] \in Hpas
    BY <1>3 DEF ValidateMerged, Answer, Recheck, DryRunMerged, Processing
  <2>2. UNCHANGED <<todo, cur, kept, reviewed, claimed>>
    BY <1>3 DEF ValidateMerged, Answer, Recheck, DryRunMerged
  <2>3. pending' \in [Sessions -> SUBSET Nat] /\ consent' \in [Sessions -> BOOLEAN]
    BY <1>3 DEF ValidateMerged, Answer, Recheck, DryRunMerged
  <2>4. \E r \in Results, where \in PCs :
          /\ pc' = [pc EXCEPT ![s] = where]
          /\ result' = result \/ result' = [result EXCEPT ![s][cur[s]] = r]
    <3>1. \/ \E r \in {"rejected", "validated", "stale", "unmergeable", "skipped"} : Conclude(s, r)
          \/ \E w \in {"prompt", "execute", "dryRunMerged", "sequential", "patchMerged"} :
               Goto(s, w) /\ result' = result
      BY <1>3 DEF ValidateMerged, Answer, Recheck, DryRunMerged, LeaveValidation, AfterValidation
    <3>2. {"rejected", "validated", "stale", "unmergeable", "skipped"} \subseteq Results
          /\ {"next", "prompt", "execute", "dryRunMerged", "sequential", "patchMerged"} \subseteq PCs
      BY DEF Results, Failures, PCs
    <3> QED BY <3>1, <3>2
  <2> QED BY <2>1, <2>2, <2>3, <2>4, <1>1, TypeMove, TypeUnchanged
<1> QED
  BY <1>2, <1>3

\* The live patches: the cluster part is TypePersist's.
LEMMA TypeWrites ==
  ASSUME TypeInv, NEW s \in Sessions, PatchMerged(s) \/ PatchNext(s)
  PROVE  TypeInv'
<1>1. TypeOK /\ cur[s] \in Hpas
  BY TypeInvIsTypeOK DEF TypeInv, ControlType, CurIsHpa, PatchMerged, PatchNext, Processing
<1>2. ClusterType'
  <2>1. UNCHANGED <<cluster, writes>> \/ \E p : Admits(cur[s], p) /\ Persist(s, p)
    BY DEF PatchMerged, PatchNext, AdmitsAt
  <2>2. CASE UNCHANGED <<cluster, writes>>
    BY <2>2, TypeUnchanged DEF TypeInv
  <2>3. ASSUME NEW p, Admits(cur[s], p), Persist(s, p) PROVE ClusterType'
    BY <2>3, <1>1, TypePersist DEF ClusterType
  <2> QED BY <2>1, <2>2, <2>3
<1>3. InputType'
  BY TypeUnchanged DEF TypeInv, PatchMerged, PatchNext
<1>4. ASSUME NEW p, Admits(cur[s], p) PROVE Stored(cur[s], p).rv \in Nat
  BY <1>1, <1>4, StoredType DEF Objects
<1>5. Cardinality(kept[s]) \in Nat
  BY FS_CardinalityType DEF TypeInv, ControlType
<1>6. reviewed' \in [Sessions -> Nat] /\ pending' \in [Sessions -> SUBSET Nat]
  BY <1>4 DEF PatchMerged, PatchNext, AdmitsAt, TypeInv, ControlType
<1>7. \/ pc' = pc /\ result' = result
      \/ \E r \in {"unknown", "applied", "partial"} : Conclude(s, r)
  BY DEF PatchMerged, PatchNext
<1>8. ControlType'
  <2>1. pc' \in [Sessions -> PCs] /\ \A t \in Sessions : pc'[t] = pc[t] \/ pc'[t] = "next"
    BY <1>7 DEF Conclude, TypeInv, ControlType, PCs
  <2>2. UNCHANGED <<todo, cur, kept, consent>>
    BY DEF PatchMerged, PatchNext
  <2> QED BY <2>1, <2>2, <1>6 DEF TypeInv, ControlType, CurIsHpa, Processing
<1>9. ReportType'
  <2>1. result' \in [Sessions -> [Hpas -> Results]]
    BY <1>7 DEF Conclude, TypeInv, ReportType, Results, Failures
  <2>2. claimed' \in [Sessions -> [Hpas -> Nat]]
    BY <1>5 DEF PatchMerged, PatchNext, TypeInv, ReportType
  <2> QED BY <2>1, <2>2 DEF ReportType
<1> QED
  BY <1>2, <1>3, <1>8, <1>9 DEF TypeInv

LEMMA TypeAnalyze ==
  ASSUME TypeInv, NEW s \in Sessions, AnalyzeOne(s) \/ AnalyzeList(s)
  PROVE  TypeInv'
<1>1. ClusterType'
  BY TypeUnchanged DEF TypeInv, AnalyzeOne, AnalyzeList
<1>2. InputType'
  <2>1. CASE AnalyzeOne(s)
    <3>1. \/ UNCHANGED <<analysed, plan>>
          \/ \E h \in Hpas, ps \in PatchLists :
               /\ hpa[h] # None
               /\ analysed' = [analysed EXCEPT ![s][h] = hpa[h]]
               /\ plan' = [plan EXCEPT ![s][h] = ps]
      BY <2>1 DEF AnalyzeOne
    <3>2. opts' = opts
      BY <2>1 DEF AnalyzeOne
    <3>3. \A h \in Hpas : hpa[h] \in Objects \cup {None}
      BY DEF TypeInv, ClusterType
    <3>4. CASE UNCHANGED <<analysed, plan>>
      BY <3>2, <3>4 DEF TypeInv, InputType
    <3>5. CASE ~UNCHANGED <<analysed, plan>>
      <4>1. PICK h \in Hpas, ps \in PatchLists :
               /\ analysed' = [analysed EXCEPT ![s][h] = hpa[h]]
               /\ plan' = [plan EXCEPT ![s][h] = ps]
        BY <3>1, <3>5
      <4>2. analysed' \in [Sessions -> [Hpas -> Objects \cup {None}]]
        BY <4>1, <3>3 DEF TypeInv, InputType
      <4>3. plan' \in [Sessions -> [Hpas -> PatchLists \cup {<<>>}]]
        BY <4>1 DEF TypeInv, InputType
      <4> QED BY <3>2, <4>2, <4>3 DEF TypeInv, InputType
    <3> QED BY <3>4, <3>5
  <2>2. CASE AnalyzeList(s)
    <3>1. PICK ps \in [Hpas -> PatchLists] :
            LET listed == {h \in Hpas : hpa[h] # None /\ ps[h] # <<>>} IN
            /\ analysed' = [analysed EXCEPT ![s] = [h \in Hpas |-> IF h \in listed THEN hpa[h] ELSE None]]
            /\ plan' = [plan EXCEPT ![s] = [h \in Hpas |-> IF h \in listed THEN ps[h] ELSE <<>>]]
      BY <2>2 DEF AnalyzeList
    <3> DEFINE listed == {h \in Hpas : hpa[h] # None /\ ps[h] # <<>>}
               A == [h \in Hpas |-> IF h \in listed THEN hpa[h] ELSE None]
               P == [h \in Hpas |-> IF h \in listed THEN ps[h] ELSE <<>>]
    <3>2. A \in [Hpas -> Objects \cup {None}] /\ P \in [Hpas -> PatchLists \cup {<<>>}]
      BY DEF TypeInv, ClusterType
    <3>3. analysed' = [analysed EXCEPT ![s] = A] /\ plan' = [plan EXCEPT ![s] = P] /\ opts' = opts
      BY <3>1, <2>2 DEF AnalyzeList
    <3> HIDE DEF A, P
    <3> QED BY <3>2, <3>3 DEF TypeInv, InputType
  <2> QED BY <2>1, <2>2
<1>3. ControlType'
  <2>1. pc' \in [Sessions -> PCs]
        /\ \A t \in Sessions : pc'[t] = pc[t] \/ pc'[t] \in {"next", "batchPrompt"}
    BY DEF AnalyzeOne, AnalyzeList, Goto, TypeInv, ControlType, PCs
  <2>2. todo' \in [Sessions -> SUBSET Hpas]
    <3>1. todo' = todo \/ \E T \in SUBSET Hpas : todo' = [todo EXCEPT ![s] = T]
      BY DEF AnalyzeOne, AnalyzeList
    <3> QED BY <3>1 DEF TypeInv, ControlType
  <2>3. consent' \in [Sessions -> BOOLEAN]
    <3>1. opts[s].yes \in BOOLEAN /\ (opts[s].yes \/ opts[s].kind = "exec") \in BOOLEAN
      BY ApplyAssumption DEF TypeInv, InputType, AllOptions
    <3>2. \E b \in BOOLEAN : consent' = [consent EXCEPT ![s] = b]
      BY <3>1 DEF AnalyzeOne, AnalyzeList
    <3> QED BY <3>2 DEF TypeInv, ControlType
  <2>4. UNCHANGED <<cur, kept, pending, reviewed>>
    BY DEF AnalyzeOne, AnalyzeList
  <2> QED BY <2>1, <2>2, <2>3, <2>4 DEF TypeInv, ControlType, CurIsHpa, Processing
<1>4. ReportType'
  <2>1. \/ UNCHANGED reports
        \/ \E h \in Hpas, r \in {"rejected", "noneApplicable"} :
             result' = [result EXCEPT ![s][h] = r] /\ claimed' = claimed
    BY DEF AnalyzeOne, AnalyzeList, reports
  <2>2. {"rejected", "noneApplicable"} \subseteq Results
    BY DEF Results, Failures
  <2>3. CASE UNCHANGED reports
    BY <2>3, TypeUnchanged DEF TypeInv
  <2>4. CASE ~UNCHANGED reports
    <3>1. PICK h \in Hpas, r \in Results :
            result' = [result EXCEPT ![s][h] = r] /\ claimed' = claimed
      BY <2>1, <2>2, <2>4
    <3>2. result' \in [Sessions -> [Hpas -> Results]]
      BY <3>1 DEF TypeInv, ReportType
    <3> QED BY <3>1, <3>2 DEF TypeInv, ReportType
  <2> QED BY <2>3, <2>4
<1> QED
  BY <1>1, <1>2, <1>3, <1>4 DEF TypeInv

LEMMA TypeReview ==
  ASSUME TypeInv, NEW s \in Sessions, NEW h \in Hpas, Review(s, h)
  PROVE  TypeInv'
<1> DEFINE K == Allowed(s, hpa[h].spec, plan[s][h])
<1>1. ClusterType' /\ InputType'
  BY TypeUnchanged DEF TypeInv, Review
<1>2. K \in SUBSET Nat /\ IsFiniteSet(K)
  <2>1. plan[s][h] \in PatchLists \cup {<<>>}
    BY DEF TypeInv, InputType
  <2>2. plan[s][h] \in Seq(Patches)
    <3>1. <<>> \in Seq(Patches)
      OBVIOUS
    <3>2. PatchLists \subseteq Seq(Patches)
      BY ApplyAssumption
    <3> HIDE DEF Patches
    <3> QED BY <2>1, <3>1, <3>2
  <2> QED BY <2>2, AllowedFinite
<1>3. \/ UNCHANGED <<kept, pending, reviewed>>
      \/ /\ hpa[h] # None
         /\ kept' = [kept EXCEPT ![s] = K]
         /\ pending' = [pending EXCEPT ![s] = K]
         /\ reviewed' = [reviewed EXCEPT ![s] = hpa[h].rv]
  BY DEF Review
<1>4. pc' \in [Sessions -> PCs] /\ UNCHANGED <<claimed, consent>>
      /\ todo' = [todo EXCEPT ![s] = @ \ {h}] /\ cur' = [cur EXCEPT ![s] = h]
      /\ \A t \in Sessions : t # s => pc'[t] = pc[t]
  BY DEF Review, Goto, TypeInv, ControlType, PCs
<1>5. ControlType'
  <2> HIDE DEF K
  <2>1. hpa[h] # None => hpa[h].rv \in Nat
    BY DEF TypeInv, ClusterType, Objects
  <2>2. kept' \in [Sessions -> SUBSET Nat] /\ pending' \in [Sessions -> SUBSET Nat]
        /\ reviewed' \in [Sessions -> Nat]
    BY <1>2, <1>3, <2>1 DEF TypeInv, ControlType
  <2>3. \A t \in Sessions : IsFiniteSet(kept'[t])
    BY <1>2, <1>3 DEF TypeInv, ControlType
  <2>4. CurIsHpa'
    BY <1>4 DEF TypeInv, ControlType, CurIsHpa
  <2> QED BY <1>4, <2>2, <2>3, <2>4 DEF TypeInv, ControlType
<1>6. ReportType'
  <2>1. \/ result' = result
        \/ \E r \in {"rejected", "stale", "blocked", "noneAllowed"} :
             result' = [result EXCEPT ![s][h] = r]
    BY DEF Review
  <2>2. {"rejected", "stale", "blocked", "noneAllowed"} \subseteq Results
    BY DEF Results, Failures
  <2>3. result' = result \/ \E r \in Results : result' = [result EXCEPT ![s][h] = r]
    BY <2>1, <2>2
  <2>4. result' \in [Sessions -> [Hpas -> Results]]
    <3>1. CASE result' = result
      BY <3>1 DEF TypeInv, ReportType
    <3>2. ASSUME NEW r \in Results, result' = [result EXCEPT ![s][h] = r]
          PROVE  result' \in [Sessions -> [Hpas -> Results]]
      BY <3>2 DEF TypeInv, ReportType
    <3> QED BY <2>3, <3>1, <3>2
  <2> QED BY <1>4, <2>4 DEF TypeInv, ReportType
<1> QED
  BY <1>1, <1>5, <1>6 DEF TypeInv

LEMMA TypeBatchMoves ==
  ASSUME TypeInv, NEW s \in Sessions, AnswerBatch(s) \/ Finish(s)
  PROVE  TypeInv'
<1>1. ClusterType' /\ InputType' /\ ReportType'
  BY TypeUnchanged DEF TypeInv, AnswerBatch, Finish
<1>2. ControlType'
  BY DEF AnswerBatch, Finish, Goto, TypeInv, ControlType, CurIsHpa, Processing, PCs
<1> QED
  BY <1>1, <1>2 DEF TypeInv

LEMMA TypeEnvironment ==
  ASSUME TypeInv, Environment
  PROVE  TypeInv'
<1>1. Others
  BY DEF Environment, Edit, Create, StatusUpdate, Delete
<1>2. InputType' /\ ControlType' /\ ReportType'
  BY <1>1, TypeUnchanged DEF Others, TypeInv
<1>3. ClusterType'
  <2>1. PICK h \in Hpas : \/ \E spec \in ValidSpecs : Edit(h, spec) \/ Create(h, spec)
                          \/ StatusUpdate(h) \/ Delete(h)
    BY DEF Environment
  <2>2. revision' \in Nat /\ writes' = writes /\ revision \in Nat
    BY <1>1, <2>1 DEF Edit, Create, StatusUpdate, Delete, Others, TypeInv, ClusterType
  <2>3. \E o \in Objects \cup {None} : hpa' = [hpa EXCEPT ![h] = o]
    <3>1. hpa[h] # None => hpa[h].uid \in Nat /\ hpa[h].spec \in ValidSpecs
      BY DEF TypeInv, ClusterType, Objects
    <3>2. \A spec \in ValidSpecs, u \in Nat :
            [uid |-> u, rv |-> revision + 1, spec |-> spec] \in Objects
      BY <2>2 DEF Objects
    <3>3. revision + 1 \in Nat
      BY <2>2
    <3>4. CASE \E spec \in ValidSpecs : Edit(h, spec) \/ Create(h, spec)
      BY <3>1, <3>2, <3>3, <3>4 DEF Edit, Create
    <3>5. CASE StatusUpdate(h) \/ Delete(h)
      BY <3>1, <3>2, <3>5 DEF StatusUpdate, Delete
    <3> QED BY <2>1, <3>4, <3>5
  <2> QED BY <2>2, <2>3 DEF TypeInv, ClusterType
<1> QED
  BY <1>2, <1>3 DEF TypeInv

LEMMA TypeNext == TypeInv /\ [Next]_vars => TypeInv'
<1> SUFFICES ASSUME TypeInv, [Next]_vars PROVE TypeInv'
  OBVIOUS
<1>1. CASE UNCHANGED vars
  BY <1>1, TypeUnchanged DEF vars, TypeInv
<1>2. CASE Environment
  BY <1>2, TypeEnvironment
<1>3. ASSUME NEW s \in Sessions, Proceed(s) \/ Answer(s) \/ AnswerBatch(s)
      PROVE  TypeInv'
  BY <1>3, TypeAnalyze, TypeReview, TypeMoves, TypeWrites, TypeBatchMoves DEF Proceed
<1> QED
  BY <1>1, <1>2, <1>3 DEF Next

\* Type correctness: no interleaving of sessions and other writers takes a
\* variable out of its range, whatever the policies and suggestion lists.
THEOREM TypeCorrect == Spec => []TypeOK
<1>1. Init => TypeInv
  BY TypeInit
<1>2. TypeInv /\ [Next]_vars => TypeInv'
  BY TypeNext
<1> QED
  BY <1>1, <1>2, TypeInvIsTypeOK, PTL DEF Spec

-----------------------------------------------------------------------------
(* No lost update.  Two facts carry the argument.  First, a resourceVersion
   names the object: versions only grow, so an object somebody remembers is
   either the one the server has or strictly older (Versions).  Second, a
   session in the middle of an HPA remembers the version of the object it
   analysed, or of the one it stored last (Remembers). *)

Known(h, o) ==
  /\ o.rv <= revision
  /\ hpa[h] # None => /\ o.rv <= hpa[h].rv
                      /\ hpa[h].rv = o.rv => hpa[h] = o

Versions ==
  /\ \A h \in Hpas : hpa[h] # None => hpa[h].rv <= revision
  /\ \A s \in Sessions, h \in Hpas : analysed[s][h] # None => Known(h, analysed[s][h])
  /\ \A s \in Sessions, h \in Hpas : \A i \in DOMAIN writes[s][h] : Known(h, writes[s][h][i].to)

RemembersAt(s) ==
  /\ pc[s] = "idle" => \A h \in Hpas : writes[s][h] = <<>>
  /\ \A h \in todo[s] : writes[s][h] = <<>> /\ analysed[s][h] # None
  /\ pc[s] \in Processing =>
       /\ cur[s] \notin todo[s]
       /\ analysed[s][cur[s]] # None
       /\ LET w == writes[s][cur[s]] IN
          /\ w = <<>> => reviewed[s] = analysed[s][cur[s]].rv
          /\ w # <<>> => reviewed[s] = w[Len(w)].to.rv

Remembers == \A s \in Sessions : RemembersAt(s)

\* A write that changes the object gives it a newer version.
Grows ==
  \A s \in Sessions, h \in Hpas : \A i \in DOMAIN writes[s][h] :
    LET v == writes[s][h][i] IN v.base # v.to => v.base.rv < v.to.rv

\* No two writes that change an HPA start from the same version of it.
DistinctBases ==
  \A s, t \in Sessions, h \in Hpas :
    \A i \in DOMAIN writes[s][h], j \in DOMAIN writes[t][h] :
      LET v == writes[s][h][i]
          w == writes[t][h][j]
      IN  v.base # v.to /\ w.base # w.to /\ v.base.rv = w.base.rv => s = t /\ i = j

SafeInv == /\ TypeInv /\ Versions /\ Remembers /\ Grows
           /\ WritesOnlyWhatWasAnalysed /\ DistinctBases

\* How any step may change the cluster.
ClusterStep ==
  /\ revision' \in Nat /\ revision <= revision'
  /\ \A h \in Hpas : \/ hpa'[h] = hpa[h]
                     \/ /\ revision' = revision + 1
                        /\ hpa'[h] # None => hpa'[h].rv = revision + 1

\* Session s stores patch p.
Adds(s, p) ==
  /\ pc[s] \in {"patchMerged", "sequential"} /\ cur[s] \in Hpas
  /\ AdmitsAt(cur[s], p, reviewed[s])
  /\ hpa' = [hpa EXCEPT ![cur[s]] = Stored(cur[s], p)]
  /\ writes' = [writes EXCEPT ![s][cur[s]] =
                  Append(@, [base |-> hpa[cur[s]], to |-> Stored(cur[s], p)])]

\* A session's step leaves writes alone or stores a patch under the version
\* precondition.
Writes(s) ==
  \E p : /\ pc[s] \in {"patchMerged", "sequential"}
         /\ cur[s] \in Hpas
         /\ AdmitsAt(cur[s], p, reviewed[s])
         /\ Persist(s, p)

LEMMA WritesOrNot ==
  ASSUME TypeInv, NEW s \in Sessions, Proceed(s) \/ Answer(s) \/ AnswerBatch(s)
  PROVE  UNCHANGED <<cluster, writes>> \/ Writes(s)
<1>1. PatchMerged(s) \/ PatchNext(s) => UNCHANGED <<cluster, writes>> \/ Writes(s)
  BY DEF PatchMerged, PatchNext, Writes, TypeInv, ControlType, CurIsHpa, Processing
<1>2. ~(PatchMerged(s) \/ PatchNext(s)) => UNCHANGED <<cluster, writes>>
  BY DEF Proceed, Answer, AnswerBatch, AnalyzeOne, AnalyzeList, Review, ValidateOne,
         ValidateMerged, Recheck, DryRunMerged, Finish
<1> QED
  BY <1>1, <1>2

LEMMA StoredVersion ==
  ASSUME TypeInv, NEW h \in Hpas, NEW p, Admits(h, p)
  PROVE  /\ Stored(h, p) \in Objects /\ hpa[h] \in Objects /\ hpa[h] # None
         /\ Stored(h, p) = hpa[h] \/ Stored(h, p).rv = revision + 1
<1>1. Stored(h, p) \in Objects /\ hpa[h] \in Objects /\ hpa[h] # None
  BY StoredType, TypeInvIsTypeOK DEF Admits
<1>2. Stored(h, p) = hpa[h] \/ Stored(h, p).rv = revision + 1
  BY <1>1 DEF Stored, Objects
<1> QED
  BY <1>1, <1>2

LEMMA StepCluster ==
  ASSUME TypeInv, [Next]_vars
  PROVE  ClusterStep
<1>0. revision \in Nat /\ \A h \in Hpas : hpa[h] \in Objects \cup {None}
  BY DEF TypeInv, ClusterType
<1>1. CASE UNCHANGED cluster
  BY <1>0, <1>1 DEF ClusterStep, cluster
<1>2. ASSUME NEW s \in Sessions, Writes(s)
      PROVE  ClusterStep
  <2>1. PICK p : cur[s] \in Hpas /\ Admits(cur[s], p) /\ Persist(s, p)
    BY <1>2 DEF Writes, AdmitsAt
  <2>2. Stored(cur[s], p) = hpa[cur[s]] \/ Stored(cur[s], p).rv = revision + 1
    BY <2>1, StoredVersion
  <2>3. hpa' = [hpa EXCEPT ![cur[s]] = Stored(cur[s], p)]
        /\ revision' = IF Stored(cur[s], p) = hpa[cur[s]] THEN revision ELSE revision + 1
    BY <2>1 DEF Persist
  <2> QED BY <1>0, <2>1, <2>2, <2>3 DEF ClusterStep, TypeInv, ClusterType
<1>3. CASE Environment
  <2>1. PICK h \in Hpas : \/ \E spec \in ValidSpecs : Edit(h, spec) \/ Create(h, spec)
                          \/ StatusUpdate(h) \/ Delete(h)
    BY <1>3 DEF Environment
  <2>2. revision' = revision + 1
    BY <2>1 DEF Edit, Create, StatusUpdate, Delete
  <2>3. \E o : hpa' = [hpa EXCEPT ![h] = o] /\ (o # None => o.rv = revision + 1)
    BY <2>1 DEF Edit, Create, StatusUpdate, Delete
  <2> QED BY <1>0, <2>2, <2>3 DEF ClusterStep, TypeInv, ClusterType
<1> QED
  BY <1>1, <1>2, <1>3, WritesOrNot DEF Next, vars, cluster

\* What is known of an object stays known.
LEMMA KnownStays ==
  ASSUME TypeInv, ClusterStep, Versions, NEW h \in Hpas, NEW o \in Objects, Known(h, o)
  PROVE  Known(h, o)'
BY DEF TypeInv, ClusterType, ClusterStep, Versions, Known, Objects

\* The object the server has is known.
LEMMA CurrentKnown ==
  ASSUME TypeInv, Versions, NEW h \in Hpas, hpa[h] # None
  PROVE  Known(h, hpa[h])
BY DEF TypeInv, ClusterType, Versions, Known, Objects

\* Only an analysis changes what a session has analysed, and it takes the
\* object the server has.
LEMMA AnalysedStep ==
  ASSUME TypeInv, [Next]_vars
  PROVE  \A s \in Sessions, h \in Hpas :
           \/ analysed'[s][h] = analysed[s][h]
           \/ /\ pc[s] = "idle"
              /\ analysed'[s][h] = None \/ (hpa[h] # None /\ analysed'[s][h] = hpa[h])
<1>1. CASE UNCHANGED analysed
  BY <1>1
<1>2. ASSUME NEW s \in Sessions, AnalyzeOne(s)
      PROVE  \E h \in Hpas : \/ analysed' = analysed
                             \/ hpa[h] # None /\ analysed' = [analysed EXCEPT ![s][h] = hpa[h]]
  BY <1>2 DEF AnalyzeOne
<1>3. ASSUME NEW s \in Sessions, AnalyzeList(s)
      PROVE  \E H \in SUBSET {h \in Hpas : hpa[h] # None} :
               analysed' = [analysed EXCEPT ![s] = [h \in Hpas |-> IF h \in H THEN hpa[h] ELSE None]]
  BY <1>3 DEF AnalyzeList
<1>4. UNCHANGED analysed \/ \E s \in Sessions : pc[s] = "idle" /\ (AnalyzeOne(s) \/ AnalyzeList(s))
  BY DEF Next, vars, inputs, Environment, Edit, Create, StatusUpdate, Delete, Others, Proceed, Answer,
         AnswerBatch, AnalyzeOne, AnalyzeList, Review, ValidateOne, ValidateMerged, Recheck,
         DryRunMerged, PatchMerged, PatchNext, Finish
<1>5. ASSUME NEW s \in Sessions, pc[s] = "idle", AnalyzeOne(s) \/ AnalyzeList(s)
      PROVE  \A t \in Sessions, h \in Hpas :
               \/ analysed'[t][h] = analysed[t][h]
               \/ /\ pc[t] = "idle"
                  /\ analysed'[t][h] = None \/ (hpa[h] # None /\ analysed'[t][h] = hpa[h])
  <2>1. CASE AnalyzeOne(s)
    BY <1>2, <1>5, <2>1 DEF TypeInv, InputType
  <2>2. CASE AnalyzeList(s)
    BY <1>3, <1>5, <2>2 DEF TypeInv, InputType
  <2> QED BY <1>5, <2>1, <2>2
<1> QED
  BY <1>1, <1>4, <1>5

\* Only live patches add to writes, one at a time, at the end.
LEMMA WritesStep ==
  ASSUME TypeInv, [Next]_vars
  PROVE  UNCHANGED writes \/ \E s \in Sessions : \E p : Adds(s, p)
<1>1. Environment \/ UNCHANGED vars => UNCHANGED writes
  BY DEF Environment, Edit, Create, StatusUpdate, Delete, Others, vars
<1>2. \A s \in Sessions : Proceed(s) \/ Answer(s) \/ AnswerBatch(s) => UNCHANGED writes \/ Writes(s)
  BY WritesOrNot
<1> QED
  BY <1>1, <1>2 DEF Next, Writes, Persist, Adds

LEMMA VersionsNext ==
  ASSUME TypeInv, TypeInv', Versions, [Next]_vars
  PROVE  Versions'
<1>1. ClusterStep
  BY StepCluster
<1>2. ASSUME NEW h \in Hpas, hpa'[h] # None PROVE hpa'[h].rv <= revision'
  BY <1>1, <1>2 DEF ClusterStep, Versions, TypeInv, ClusterType, Objects
<1>3. \A h \in Hpas, o \in Objects : Known(h, o) => Known(h, o)'
  BY <1>1, KnownStays
<1>4. ASSUME NEW s \in Sessions, NEW h \in Hpas, analysed'[s][h] # None
      PROVE  Known(h, analysed[s][h])'
  <2>1. PICK o \in Objects : o = analysed'[s][h]
    BY <1>4 DEF TypeInv, InputType
  <2>2. Known(h, o)
    BY <1>4, <2>1, AnalysedStep, CurrentKnown DEF Versions
  <2> QED BY <1>3, <2>1, <2>2 DEF Known
<1>5. ASSUME NEW s \in Sessions, NEW h \in Hpas, NEW i \in DOMAIN writes'[s][h]
      PROVE  Known(h, writes[s][h][i].to)'
  <2>0. writes \in [Sessions -> [Hpas -> Seq([base : Objects, to : Objects])]]
        /\ writes[s][h] \in Seq([base : Objects, to : Objects])
        /\ writes'[s][h] \in Seq([base : Objects, to : Objects])
    BY DEF TypeInv, ClusterType
  <2>1. PICK o \in Objects : o = writes'[s][h][i].to
    <3> DEFINE W == [base : Objects, to : Objects]
    <3>1. \A w \in W : w.to \in Objects
      OBVIOUS
    <3>2. writes'[s][h] \in Seq(W)
      BY <2>0
    <3> HIDE DEF W
    <3>3. writes'[s][h][i] \in W
      BY <3>2, <1>5
    <3> QED BY <3>1, <3>3
  <2>2. Known(h, o) \/ Known(h, o)'
    <3>1. CASE writes'[s][h] = writes[s][h]
      BY <3>1, <1>5, <2>1 DEF Versions
    <3>2. CASE writes'[s][h] # writes[s][h]
      <4>1. PICK p : /\ cur[s] = h /\ AdmitsAt(h, p, reviewed[s])
                     /\ hpa' = [hpa EXCEPT ![h] = Stored(h, p)]
                     /\ writes'[s][h] = Append(writes[s][h], [base |-> hpa[h], to |-> Stored(h, p)])
        <5>0. PICK u \in Sessions : \E p : Adds(u, p)
          BY <3>2, WritesStep
        <5>1. PICK p :
                /\ cur[u] \in Hpas /\ AdmitsAt(cur[u], p, reviewed[u])
                /\ hpa' = [hpa EXCEPT ![cur[u]] = Stored(cur[u], p)]
                /\ writes' = [writes EXCEPT ![u][cur[u]] =
                                Append(@, [base |-> hpa[cur[u]], to |-> Stored(cur[u], p)])]
          BY <5>0 DEF Adds
        <5>2. u = s /\ cur[u] = h
          BY <3>2, <5>1, <2>0
        <5> QED BY <5>1, <5>2, <2>0
      <4>2. hpa'[h] = Stored(h, p) /\ Stored(h, p) \in Objects
        BY <4>1, StoredVersion DEF AdmitsAt, TypeInv, ClusterType
      <4>3. CASE i \in DOMAIN writes[s][h]
        BY <4>1, <4>3, <2>0, <2>1 DEF Versions
      <4>4. CASE i \notin DOMAIN writes[s][h]
        <5>1. o = Stored(h, p)
          BY <4>1, <4>4, <2>0, <2>1, <1>5
        <5>2. hpa'[h] # None
          BY <4>2, ApplyAssumption
        <5>3. o \in Objects /\ o.rv \in Nat
          BY DEF Objects
        <5> QED BY <5>1, <5>2, <5>3, <4>2, <1>2 DEF Known
      <4> QED BY <4>3, <4>4
    <3> QED BY <3>1, <3>2
  <2>3. Known(h, o)'
    BY <2>2, <1>3
  <2> QED BY <2>1, <2>3 DEF Known
<1> QED
  BY <1>2, <1>4, <1>5 DEF Versions

\* What a write meets: the analysed object, or the one stored last, and nothing
\* newer than what anybody else stored.
LEMMA WriteMeets ==
  ASSUME SafeInv, NEW s \in Sessions, NEW p, Adds(s, p)
  PROVE  LET h == cur[s]
             base == hpa[h]
             to == Stored(h, p)
         IN  /\ base \in Objects /\ to \in Objects
             /\ writes[s][h] = <<>> => base = analysed[s][h]
             /\ writes[s][h] # <<>> => base = writes[s][h][Len(writes[s][h])].to
             /\ base # to => base.rv < to.rv
             /\ \A t \in Sessions : \A j \in DOMAIN writes[t][h] : writes[t][h][j].to.rv <= base.rv
<1> DEFINE h == cur[s]
           w == writes[s][h]
<1>0. pc[s] \in Processing /\ h \in Hpas
  BY DEF Adds, Processing
<1>1. Admits(h, p) /\ hpa[h].rv = reviewed[s] /\ hpa[h] # None
  BY DEF Adds, AdmitsAt, Admits
<1>2. hpa[h] \in Objects /\ Stored(h, p) \in Objects
      /\ (Stored(h, p) = hpa[h] \/ Stored(h, p).rv = revision + 1)
  BY <1>0, <1>1, StoredVersion DEF SafeInv
<1>3. hpa[h].rv <= revision /\ hpa[h].rv \in Nat /\ revision \in Nat
  BY <1>0, <1>1, <1>2 DEF SafeInv, Versions, TypeInv, ClusterType, Objects
<1>4. analysed[s][h] # None
      /\ (w = <<>> => reviewed[s] = analysed[s][h].rv)
      /\ (w # <<>> => reviewed[s] = w[Len(w)].to.rv)
  BY <1>0 DEF SafeInv, Remembers, RemembersAt
<1>5. w = <<>> => hpa[h] = analysed[s][h]
  BY <1>0, <1>1, <1>4 DEF SafeInv, Versions, Known
<1>6. w # <<>> => hpa[h] = w[Len(w)].to
  <2>1. w \in Seq([base : Objects, to : Objects])
    BY <1>0 DEF SafeInv, TypeInv, ClusterType
  <2>2. w # <<>> => Len(w) \in DOMAIN w
    BY <2>1
  <2> QED BY <1>0, <1>1, <1>4, <2>2 DEF SafeInv, Versions, Known
<1>7. hpa[h] # Stored(h, p) => hpa[h].rv < Stored(h, p).rv
  BY <1>2, <1>3
<1>8. \A t \in Sessions : \A j \in DOMAIN writes[t][h] : writes[t][h][j].to.rv <= hpa[h].rv
  BY <1>0, <1>1 DEF SafeInv, Versions, Known
<1> QED
  BY <1>2, <1>5, <1>6, <1>7, <1>8

\* An index of a sequence that is not the last has a successor.
LEMMA NotTheLast ==
  ASSUME NEW n \in Nat, NEW i \in 1 .. n, i # n
  PROVE  i \in 1 .. n - 1 /\ i + 1 \in 1 .. n
OBVIOUS

\* Positions of a log after one entry was added.
LEMMA AppendFacts ==
  ASSUME NEW T, NEW w \in Seq(T), NEW e \in T
  PROVE  LET v == Append(w, e) IN
         /\ v # <<>> /\ Len(v) = Len(w) + 1 /\ Len(w) \in Nat
         /\ DOMAIN v = 1 .. Len(w) + 1 /\ DOMAIN w = 1 .. Len(w)
         /\ v[Len(w) + 1] = e
         /\ \A i \in 1 .. Len(w) : v[i] = w[i]
OBVIOUS

LEMMA LastOfAppend ==
  ASSUME NEW T, NEW w \in Seq(T), NEW e \in T
  PROVE  Append(w, e) # <<>> /\ Append(w, e)[Len(Append(w, e))] = e
OBVIOUS

LEMMA ChainNext ==
  ASSUME SafeInv, [Next]_vars
  PROVE  WritesOnlyWhatWasAnalysed' /\ Grows'
<1> DEFINE W == [base : Objects, to : Objects]
<1>0. writes \in [Sessions -> [Hpas -> Seq(W)]]
  BY DEF SafeInv, TypeInv, ClusterType
<1>1. \A s \in Sessions, h \in Hpas :
        writes[s][h] # <<>> => analysed'[s][h] = analysed[s][h]
  BY AnalysedStep DEF SafeInv, Remembers, RemembersAt
<1>2. CASE UNCHANGED writes
  BY <1>1, <1>2 DEF SafeInv, WritesOnlyWhatWasAnalysed, Grows
<1>3. ASSUME NEW s \in Sessions, NEW p, Adds(s, p)
      PROVE  WritesOnlyWhatWasAnalysed' /\ Grows'
  <2> DEFINE h == cur[s]
             w == writes[s][h]
             e == [base |-> hpa[h], to |-> Stored(h, p)]
  <2>1. /\ e \in W
        /\ w = <<>> => e.base = analysed[s][h]
        /\ w # <<>> => e.base = w[Len(w)].to
        /\ e.base # e.to => e.base.rv < e.to.rv
    <3>1. /\ hpa[h] \in Objects /\ Stored(h, p) \in Objects
          /\ w = <<>> => hpa[h] = analysed[s][h]
          /\ w # <<>> => hpa[h] = w[Len(w)].to
          /\ hpa[h] # Stored(h, p) => hpa[h].rv < Stored(h, p).rv
      BY <1>3, WriteMeets
    <3>2. e.base = hpa[h] /\ e.to = Stored(h, p) /\ e \in W
      BY <3>1
    <3> HIDE DEF e, w, h
    <3> QED BY <3>1, <3>2
  <2>2. /\ w \in Seq(W) /\ writes'[s][h] = Append(w, e)
        /\ \A u \in Sessions, g \in Hpas : u # s \/ g # h => writes'[u][g] = writes[u][g]
    BY <1>0, <1>3 DEF Adds
  <2>3. analysed'[s][h] = analysed[s][h]
    BY <1>3, AnalysedStep DEF SafeInv, Adds
  <2> HIDE DEF W, e, w, h
  <2>4. /\ writes'[s][h] # <<>> /\ Len(writes'[s][h]) = Len(w) + 1 /\ Len(w) \in Nat
        /\ DOMAIN writes'[s][h] = 1 .. Len(w) + 1 /\ DOMAIN w = 1 .. Len(w)
        /\ writes'[s][h][Len(w) + 1] = e
        /\ \A i \in 1 .. Len(w) : writes'[s][h][i] = w[i]
    BY <2>1, <2>2, AppendFacts
  <2>5. w # <<>> => 1 \in 1 .. Len(w)
    BY <2>2
  <2>6. w = <<>> => Len(w) = 0
    OBVIOUS
  <2>7. /\ writes'[s][h][1].base = analysed'[s][h]
        /\ \A i \in 1 .. Len(writes'[s][h]) - 1 : writes'[s][h][i + 1].base = writes'[s][h][i].to
    <3>1. w # <<>> => /\ w[1].base = analysed[s][h]
                      /\ \A i \in 1 .. Len(w) - 1 : w[i + 1].base = w[i].to
      BY <1>3 DEF Adds, SafeInv, WritesOnlyWhatWasAnalysed, w, h
    <3>2. CASE w = <<>>
      BY <3>2, <2>1, <2>3, <2>4, <2>6
    <3>3. CASE w # <<>>
      <4>1. writes'[s][h][1].base = analysed'[s][h]
        BY <3>1, <3>3, <2>3, <2>4, <2>5
      <4>2. ASSUME NEW i \in 1 .. Len(w) PROVE writes'[s][h][i + 1].base = writes'[s][h][i].to
        <5>1. CASE i = Len(w)
          BY <5>1, <3>3, <2>1, <2>4
        <5>2. CASE i # Len(w)
          <6>0. Len(w) \in Nat
            BY <2>4
          <6>1. i \in 1 .. Len(w) - 1 /\ i + 1 \in 1 .. Len(w)
            BY <5>2, <6>0, NotTheLast
          <6> QED BY <6>1, <3>1, <3>3, <2>4
        <5> QED BY <5>1, <5>2
      <4> QED BY <4>1, <4>2, <2>4
    <3> QED BY <3>2, <3>3
  <2>8. WritesOnlyWhatWasAnalysed'
    <3>1. ASSUME NEW u \in Sessions, NEW g \in Hpas, writes'[u][g] # <<>>
          PROVE  /\ writes'[u][g][1].base = analysed'[u][g]
                 /\ \A i \in 1 .. Len(writes'[u][g]) - 1 :
                      writes'[u][g][i + 1].base = writes'[u][g][i].to
      <4>1. CASE u = s /\ g = h
        BY <4>1, <2>7
      <4>2. CASE u # s \/ g # h
        BY <4>2, <3>1, <2>2, <1>1 DEF SafeInv, WritesOnlyWhatWasAnalysed
      <4> QED BY <4>1, <4>2
    <3> QED BY <3>1 DEF WritesOnlyWhatWasAnalysed
  <2>9. \A i \in DOMAIN writes'[s][h] :
          LET v == writes'[s][h][i] IN v.base # v.to => v.base.rv < v.to.rv
    BY <2>1, <2>4, <1>3 DEF Adds, SafeInv, Grows, w, h
  <2>10. Grows'
    BY <2>2, <2>9 DEF SafeInv, Grows
  <2> QED BY <2>8, <2>10
<1> QED
  BY <1>2, <1>3, WritesStep DEF SafeInv

\* A session whose own part of the state a step leaves alone.
LEMMA RemembersFrame ==
  ASSUME NEW t \in Sessions, RemembersAt(t),
         pc'[t] = pc[t], todo'[t] = todo[t], cur'[t] = cur[t], reviewed'[t] = reviewed[t],
         analysed'[t] = analysed[t], writes'[t] = writes[t]
  PROVE  RemembersAt(t)'
BY DEF RemembersAt

LEMMA RemembersNext ==
  ASSUME SafeInv, [Next]_vars
  PROVE  Remembers'
<1>1. \A t \in Sessions : RemembersAt(t)
  BY DEF SafeInv, Remembers
<1>2. CASE UNCHANGED vars \/ Environment
  <2>1. UNCHANGED <<pc, todo, cur, reviewed, analysed, writes>>
    BY <1>2 DEF vars, inputs, control, Environment, Edit, Create, StatusUpdate, Delete, Others
  <2> QED BY <1>1, <2>1, RemembersFrame DEF Remembers
<1>3. ASSUME NEW s \in Sessions, Proceed(s) \/ Answer(s) \/ AnswerBatch(s)
      PROVE  Remembers'
  <2> USE DEF SafeInv, TypeInv, ControlType, InputType, ClusterType
  <2>1. \A t \in Sessions : t # s => RemembersAt(t)'
    <3>1. ASSUME NEW t \in Sessions, t # s
          PROVE  /\ pc'[t] = pc[t] /\ todo'[t] = todo[t] /\ cur'[t] = cur[t]
                 /\ reviewed'[t] = reviewed[t]
      BY <1>3, <3>1 DEF Proceed, Answer, AnswerBatch, AnalyzeOne, AnalyzeList, Review, ValidateOne,
           ValidateMerged, Recheck, DryRunMerged, PatchMerged, PatchNext, Finish, Goto, Conclude,
           LeaveValidation
    <3>2. ASSUME NEW t \in Sessions, t # s
          PROVE  analysed'[t] = analysed[t]
      BY <1>3, <3>2 DEF Proceed, Answer, AnswerBatch, AnalyzeOne, AnalyzeList, Review, ValidateOne,
           ValidateMerged, Recheck, DryRunMerged, PatchMerged, PatchNext, Finish, inputs
    <3>3. ASSUME NEW t \in Sessions, t # s
          PROVE  writes'[t] = writes[t]
      <4>1. UNCHANGED writes \/ Writes(s)
        BY <1>3, WritesOrNot
      <4>2. CASE Writes(s)
        BY <4>2, <3>3 DEF Writes, Persist
      <4> QED BY <4>1, <4>2
    <3> QED BY <1>1, <3>1, <3>2, <3>3, RemembersFrame
  <2>2. RemembersAt(s)
    BY <1>1
  <2>3. ASSUME AnalyzeOne(s) \/ AnalyzeList(s)
       PROVE  RemembersAt(s)'
    <3>1. pc'[s] \in {"next", "batchPrompt"} /\ writes' = writes /\ \A h \in Hpas : writes[s][h] = <<>>
      BY <2>2, <2>3 DEF AnalyzeOne, AnalyzeList, Goto, RemembersAt
    <3>2. \A h \in todo'[s] : analysed'[s][h] # None
      <4>1. CASE AnalyzeOne(s)
        BY <2>2, <4>1 DEF AnalyzeOne, RemembersAt
      <4>2. CASE AnalyzeList(s)
        BY <4>2 DEF AnalyzeList
      <4> QED BY <2>3, <4>1, <4>2
    <3>3. todo'[s] \subseteq Hpas
      BY TypeNext DEF Next
    <3> QED BY <3>1, <3>2, <3>3 DEF RemembersAt, Processing
  <2>4. ASSUME NEW h \in Hpas, Review(s, h) PROVE RemembersAt(s)'
    <3>1. /\ h \in todo[s] /\ todo'[s] = todo[s] \ {h} /\ cur'[s] = h
          /\ analysed' = analysed /\ writes' = writes
      BY <2>4 DEF Review, inputs
    <3>2. \/ pc'[s] = "next"
          \/ pc'[s] \in {"execute", "validate"} /\ reviewed'[s] = analysed[s][h].rv
      BY <2>4 DEF Review, SourceMatches, Goto
    <3> QED BY <2>2, <3>1, <3>2 DEF RemembersAt, Processing
  <2>5. ASSUME ValidateOne(s) \/ ValidateMerged(s) \/ Answer(s) \/ Recheck(s) \/ DryRunMerged(s)
       PROVE  RemembersAt(s)'
    <3>1. UNCHANGED <<todo, cur, reviewed, analysed, writes>>
      BY <2>5 DEF ValidateOne, ValidateMerged, Answer, Recheck, DryRunMerged, inputs
    <3>2. pc[s] \in Processing /\ pc'[s] # "idle"
      BY <2>5 DEF ValidateOne, ValidateMerged, Answer, Recheck, DryRunMerged, Processing, Goto,
           Conclude, LeaveValidation, AfterValidation
    <3> QED BY <2>2, <3>1, <3>2 DEF RemembersAt
  <2>6. ASSUME AnswerBatch(s) \/ Finish(s)
       PROVE  RemembersAt(s)'
    <3>1. UNCHANGED <<analysed, writes>> /\ todo'[s] \subseteq todo[s] /\ pc'[s] \in {"next", "done"}
      BY <2>6 DEF AnswerBatch, Finish, inputs, Goto
    <3> QED BY <2>2, <3>1 DEF RemembersAt, Processing
  <2>7. ASSUME PatchMerged(s) \/ PatchNext(s)
       PROVE  RemembersAt(s)'
    <3>1. UNCHANGED <<todo, cur, analysed>> /\ pc[s] \in Processing /\ pc'[s] # "idle"
          /\ cur[s] \in Hpas
      BY <2>7 DEF PatchMerged, PatchNext, inputs, Processing, Conclude, CurIsHpa
    <3>2. \A g \in Hpas : g # cur[s] => writes'[s][g] = writes[s][g]
      BY <2>7 DEF PatchMerged, PatchNext, Persist
    <3>3. pc'[s] \in Processing =>
            /\ writes'[s][cur[s]] # <<>>
            /\ reviewed'[s] = writes'[s][cur[s]][Len(writes'[s][cur[s]])].to.rv
      <4>1. CASE pc'[s] = "next"
        BY <4>1 DEF Processing
      <4>2. CASE pc'[s] # "next"
        <5>1. PICK p : Persist(s, p) /\ reviewed'[s] = Stored(cur[s], p).rv
              /\ Admits(cur[s], p)
          BY <2>7, <4>2 DEF PatchMerged, PatchNext, Conclude, AdmitsAt
        <5> DEFINE W == [base : Objects, to : Objects]
                   w == writes[s][cur[s]]
                   e == [base |-> hpa[cur[s]], to |-> Stored(cur[s], p)]
        <5>2. e \in W /\ w \in Seq(W) /\ writes'[s][cur[s]] = Append(w, e)
          BY <3>1, <5>1, StoredVersion DEF Persist
        <5>3. reviewed'[s] = e.to.rv
          BY <5>1
        <5> HIDE DEF W, w, e
        <5>4. Append(w, e) # <<>> /\ Append(w, e)[Len(Append(w, e))] = e
          <6>1. w \in Seq(W) /\ e \in W
            BY <5>2
          <6> HIDE DEF SafeInv, TypeInv, ControlType, InputType, ClusterType
          <6> QED BY <6>1, LastOfAppend
        <5> QED BY <5>2, <5>3, <5>4
      <4> QED BY <4>1, <4>2
    <3>4. todo[s] \subseteq Hpas
      OBVIOUS
    <3> QED BY <2>2, <3>1, <3>2, <3>3, <3>4 DEF RemembersAt
  <2>8. RemembersAt(s)'
    BY <1>3, <2>3, <2>4, <2>5, <2>6, <2>7 DEF Proceed
  <2> QED BY <2>1, <2>8 DEF Remembers
<1> QED
  BY <1>2, <1>3 DEF Next

LEMMA WinnerNext ==
  ASSUME SafeInv, [Next]_vars
  PROVE  DistinctBases'
<1> DEFINE W == [base : Objects, to : Objects]
<1>0. writes \in [Sessions -> [Hpas -> Seq(W)]]
  BY DEF SafeInv, TypeInv, ClusterType
<1>1. CASE UNCHANGED writes
  BY <1>1 DEF SafeInv, DistinctBases
<1>2. ASSUME NEW s \in Sessions, NEW p, Adds(s, p)
      PROVE  DistinctBases'
  <2> DEFINE h == cur[s]
             w == writes[s][h]
             e == [base |-> hpa[h], to |-> Stored(h, p)]
  <2>1. /\ e \in W
        /\ \A t \in Sessions : \A j \in DOMAIN writes[t][h] : writes[t][h][j].to.rv <= e.base.rv
    <3>1. /\ hpa[h] \in Objects /\ Stored(h, p) \in Objects
          /\ \A t \in Sessions : \A j \in DOMAIN writes[t][h] : writes[t][h][j].to.rv <= hpa[h].rv
      BY <1>2, WriteMeets
    <3> QED BY <3>1
  <2>2. /\ w \in Seq(W) /\ writes'[s][h] = Append(w, e)
        /\ \A u \in Sessions, g \in Hpas : u # s \/ g # h => writes'[u][g] = writes[u][g]
    BY <1>0, <1>2 DEF Adds
  <2>3. h \in Hpas /\ e.base.rv \in Nat
    BY <1>2, <2>1 DEF Adds, Objects
  \* A change stored before e started from an older version than e does.
  <2>4. ASSUME NEW t \in Sessions, NEW j \in DOMAIN writes[t][h],
               writes[t][h][j].base # writes[t][h][j].to
        PROVE  writes[t][h][j].base.rv # e.base.rv
    <3>1. writes[t][h][j].base.rv < writes[t][h][j].to.rv
      BY <2>3, <2>4 DEF SafeInv, Grows
    <3>2. writes[t][h][j].to.rv <= e.base.rv
      BY <2>1
    <3>3. writes[t][h][j] \in W
      <4>1. writes[t][h] \in Seq(W)
        BY <1>0, <2>3
      <4> HIDE DEF W, h
      <4> QED BY <4>1
    <3>4. writes[t][h][j].base.rv \in Nat /\ writes[t][h][j].to.rv \in Nat
      BY <3>3 DEF Objects
    <3> QED BY <3>1, <3>2, <3>4, <2>3
  <2> HIDE DEF W, e, w, h
  <2>5. /\ DOMAIN writes'[s][h] = 1 .. Len(w) + 1 /\ DOMAIN w = 1 .. Len(w) /\ Len(w) \in Nat
        /\ writes'[s][h][Len(w) + 1] = e
        /\ \A i \in 1 .. Len(w) : writes'[s][h][i] = w[i]
    BY <2>1, <2>2, AppendFacts
  \* Every write on h is an old one or e.
  <2>6. ASSUME NEW t \in Sessions, NEW j \in DOMAIN writes'[t][h]
        PROVE  \/ j \in DOMAIN writes[t][h] /\ writes'[t][h][j] = writes[t][h][j]
               \/ t = s /\ j = Len(w) + 1 /\ writes'[t][h][j] = e
    <3>1. CASE t # s
      BY <3>1, <2>2, <2>3, <2>6
    <3>2. CASE t = s
      <4>1. j \in 1 .. Len(w) + 1 /\ Len(w) \in Nat
        BY <3>2, <2>5, <2>6
      <4>2. j = Len(w) + 1 \/ j \in 1 .. Len(w)
        BY <4>1
      <4>3. CASE j = Len(w) + 1
        BY <3>2, <4>3, <2>5
      <4>4. CASE j \in 1 .. Len(w)
        BY <3>2, <4>4, <2>5 DEF w
      <4> QED BY <4>2, <4>3, <4>4
    <3> QED BY <3>1, <3>2
  <2>7. ASSUME NEW t \in Sessions, NEW u \in Sessions, NEW g \in Hpas,
               NEW i \in DOMAIN writes'[t][g], NEW j \in DOMAIN writes'[u][g],
               writes'[t][g][i].base # writes'[t][g][i].to,
               writes'[u][g][j].base # writes'[u][g][j].to,
               writes'[t][g][i].base.rv = writes'[u][g][j].base.rv
        PROVE  t = u /\ i = j
    <3>1. CASE g # h
      BY <2>2, <2>7, <3>1 DEF SafeInv, DistinctBases
    <3>2. CASE g = h
      <4>1. CASE i \in DOMAIN writes[t][h] /\ writes'[t][h][i] = writes[t][h][i]
        <5>1. CASE j \in DOMAIN writes[u][h] /\ writes'[u][h][j] = writes[u][h][j]
          BY <2>3, <2>7, <3>2, <4>1, <5>1 DEF SafeInv, DistinctBases
        <5>2. CASE u = s /\ j = Len(w) + 1 /\ writes'[u][h][j] = e
          BY <2>4, <2>7, <3>2, <4>1, <5>2
        <5> QED BY <2>6, <2>7, <3>2, <5>1, <5>2
      <4>2. CASE t = s /\ i = Len(w) + 1 /\ writes'[t][h][i] = e
        <5>1. CASE j \in DOMAIN writes[u][h] /\ writes'[u][h][j] = writes[u][h][j]
          BY <2>4, <2>7, <3>2, <4>2, <5>1
        <5>2. CASE u = s /\ j = Len(w) + 1 /\ writes'[u][h][j] = e
          BY <4>2, <5>2
        <5> QED BY <2>6, <2>7, <3>2, <5>1, <5>2
      <4> QED BY <2>6, <2>7, <3>2, <4>1, <4>2
    <3> QED BY <3>1, <3>2
  <2> QED BY <2>7 DEF DistinctBases
<1> QED
  BY <1>1, <1>2, WritesStep DEF SafeInv

LEMMA SafeInit == Init => SafeInv
<1> SUFFICES ASSUME Init PROVE SafeInv
  OBVIOUS
<1>1. TypeInv
  BY TypeInit
<1>2. \A s \in Sessions, h \in Hpas : writes[s][h] = <<>> /\ DOMAIN writes[s][h] = {}
  BY DEF Init
<1>3. Versions
  <2>1. \A h \in Hpas : hpa[h].rv = 0 /\ revision = 0
    BY DEF Init
  <2> QED BY <1>2, <2>1 DEF Versions, Init
<1>4. Remembers
  BY <1>2 DEF Remembers, RemembersAt, Init, Processing
<1>5. Grows /\ WritesOnlyWhatWasAnalysed /\ DistinctBases
  BY <1>2 DEF Grows, WritesOnlyWhatWasAnalysed, DistinctBases
<1> QED
  BY <1>1, <1>3, <1>4, <1>5 DEF SafeInv

LEMMA SafeNext == SafeInv /\ [Next]_vars => SafeInv'
<1> SUFFICES ASSUME SafeInv, [Next]_vars PROVE SafeInv'
  OBVIOUS
<1>1. TypeInv /\ TypeInv' /\ Versions
  BY TypeNext DEF SafeInv
<1> QED
  BY <1>1, VersionsNext, RemembersNext, ChainNext, WinnerNext DEF SafeInv

\* No lost update: whoever else writes the HPA between analysis and apply, a
\* session only ever replaces the object it analysed (or the one it has just
\* stored itself).
THEOREM NoLostUpdate == Spec => []WritesOnlyWhatWasAnalysed
<1>1. SafeInv => WritesOnlyWhatWasAnalysed
  BY DEF SafeInv
<1> QED
  BY <1>1, SafeInit, SafeNext, PTL DEF Spec

\* Of any number of sessions that reviewed the same version of an HPA at most
\* one changes it.
THEOREM OneWinner == Spec => []OneWinnerPerVersion
<1>1. SafeInv => OneWinnerPerVersion
  <2> SUFFICES ASSUME SafeInv, NEW s \in Sessions, NEW t \in Sessions, NEW h \in Hpas,
                      s # t, Changes(s, h), Changes(t, h)
               PROVE  analysed[s][h] # analysed[t][h]
    BY DEF OneWinnerPerVersion
  <2>1. writes[s][h][1].base = analysed[s][h] /\ writes[t][h][1].base = analysed[t][h]
    BY DEF SafeInv, WritesOnlyWhatWasAnalysed, Changes
  <2>2. 1 \in DOMAIN writes[s][h] /\ 1 \in DOMAIN writes[t][h]
    <3>1. \A u \in Sessions : writes[u][h] \in Seq([base : Objects, to : Objects])
      BY DEF SafeInv, TypeInv, ClusterType
    <3> QED BY <3>1 DEF Changes
  <2> QED BY <2>1, <2>2 DEF SafeInv, DistinctBases, Changes
<1> QED
  BY <1>1, SafeInit, SafeNext, PTL DEF Spec

-----------------------------------------------------------------------------
(* What a session knows of itself.  Policy, consent, the report and the single
   merged write all rest on facts about one session's own variables: what its
   review decided stays what the live patches use (Reviewed), what has not been
   tried has neither outcome nor write (Open), every outcome accounts for the
   writes made so far (Accounted), nobody passes a prompt without an answer
   (Agreed) and a batch forgets no entry (Batched). *)

\* The positions the policy guard lets through, judged on the analysed object.
Selected(s, h) == Allowed(s, analysed[s][h].spec, plan[s][h])

\* The object judged was the analysed one, so the guard's verdict at the
\* review is its verdict on that object.
Reviewed(s) ==
  pc[s] \in Processing =>
    LET h == cur[s] IN
    /\ kept[s] = Selected(s, h) /\ kept[s] # {}
    /\ ~PolicyRefuses(s, analysed[s][h].spec, plan[s][h])
    /\ pc[s] \in {"dryRunMerged", "patchMerged"} => Mergeable(plan[s][h], kept[s])
    /\ pc[s] = "sequential" => ~Mergeable(plan[s][h], kept[s]) /\ opts[s].allowPartial

\* HPAs still to be concluded have no outcome.
Open(s) ==
  /\ pc[s] = "idle" => /\ todo[s] = {} /\ \A h \in Hpas : result[s][h] = "none"
                       /\ analysed[s] = [h \in Hpas |-> None] /\ plan[s] = [h \in Hpas |-> <<>>]
  /\ \A h \in todo[s] : result[s][h] = "none" /\ plan[s][h] # <<>>
  /\ pc[s] \in Processing => result[s][cur[s]] = "none" /\ plan[s][cur[s]] # <<>>

\* The fallback has applied what is neither pending nor excluded.
Applying(s, h) ==
  /\ Len(writes[s][h]) = claimed[s][h]
  /\ pending[s] \subseteq kept[s] /\ pending[s] # {}
  /\ claimed[s][h] + Cardinality(pending[s]) = Cardinality(kept[s])

AccountedFor(s, h) ==
  LET n == Len(writes[s][h])
      K == Selected(s, h)
  IN
  CASE result[s][h] = "none" ->
         IF pc[s] = "sequential" /\ cur[s] = h THEN Applying(s, h)
                                               ELSE n = 0 /\ claimed[s][h] = 0
    [] result[s][h] = "applied" ->
         /\ claimed[s][h] = Cardinality(K)
         /\ n = IF Mergeable(plan[s][h], K) THEN 1 ELSE claimed[s][h]
    [] result[s][h] = "unknown" -> n <= 1 /\ claimed[s][h] = 0
    [] result[s][h] = "partial" -> claimed[s][h] <= n /\ n <= claimed[s][h] + 1
    [] OTHER -> n = 0 /\ claimed[s][h] = 0

\* A write is the whole intended state, or one of the fallback's.
WholeOrPartial(s, h) ==
  LET w == writes[s][h] IN
  w # <<>> => \/ /\ ~Mergeable(plan[s][h], Selected(s, h)) /\ opts[s].allowPartial
                 /\ opts[s].guard # "block"
              \/ /\ Mergeable(plan[s][h], Selected(s, h))
                 /\ Selected(s, h) # {}
                 /\ ~PolicyRefuses(s, analysed[s][h].spec, plan[s][h])
                 /\ Len(w) = 1 /\ w[1].to.spec = Intended(s, h)

Accounted(s) == \A h \in Hpas : AccountedFor(s, h) /\ WholeOrPartial(s, h)

Agreed(s) ==
  /\ pc[s] # "idle" /\ (opts[s].yes \/ opts[s].kind = "exec") => consent[s]
  /\ opts[s].kind = "list" /\ (pc[s] \in Processing \/ (pc[s] = "next" /\ todo[s] # {}))
       => consent[s]
  /\ pc[s] = "prompt" => ~opts[s].dryRun
  /\ pc[s] \in {"execute", "dryRunMerged", "patchMerged", "sequential"}
       => consent[s] /\ ~opts[s].dryRun
  /\ \A h \in Hpas : writes[s][h] # <<>> => consent[s] /\ ~opts[s].dryRun

Batched(s) ==
  opts[s].kind = "list" =>
    /\ pc[s] = "batchPrompt" => ~consent[s]
    /\ \A h \in Hpas :
         /\ result[s][h] # "none" => consent[s] /\ plan[s][h] # <<>>
         /\ pc[s] # "idle" /\ (consent[s] \/ pc[s] = "batchPrompt") /\ plan[s][h] # <<>> /\ result[s][h] = "none"
              => h \in todo[s] \/ (pc[s] \in Processing /\ cur[s] = h)
    /\ pc[s] = "done" => todo[s] = {}

SessionInv(s) == Reviewed(s) /\ Open(s) /\ Accounted(s) /\ Agreed(s) /\ Batched(s)

ApplyInv == SafeInv /\ \A s \in Sessions : SessionInv(s)

LEMMA SelectedFinite ==
  ASSUME TypeInv, NEW s \in Sessions, NEW h \in Hpas
  PROVE  /\ Selected(s, h) \in SUBSET Nat /\ IsFiniteSet(Selected(s, h))
         /\ Selected(s, h) \subseteq DOMAIN plan[s][h]
<1>1. plan[s][h] \in PatchLists \cup {<<>>}
  BY DEF TypeInv, InputType
<1>2. plan[s][h] \in Seq(Patches)
  <2>1. <<>> \in Seq(Patches) /\ PatchLists \subseteq Seq(Patches)
    BY ApplyAssumption
  <2> HIDE DEF Patches
  <2> QED BY <1>1, <2>1
<1>3. Selected(s, h) \subseteq DOMAIN plan[s][h]
  BY DEF Selected, Allowed, GuardFix
<1> QED
  BY <1>2, <1>3, AllowedFinite DEF Selected

\* What another session's step, or anybody else's, leaves of session t.
InputsStay(t) == opts'[t] = opts[t] /\ analysed'[t] = analysed[t] /\ plan'[t] = plan[t]

SessionStays(t) ==
  /\ InputsStay(t)
  /\ pc'[t] = pc[t] /\ todo'[t] = todo[t] /\ cur'[t] = cur[t] /\ kept'[t] = kept[t]
  /\ pending'[t] = pending[t] /\ consent'[t] = consent[t]
  /\ result'[t] = result[t] /\ claimed'[t] = claimed[t] /\ writes'[t] = writes[t]

\* The guard's verdict and the intended state are functions of the inputs.
LEMMA VerdictStays ==
  ASSUME NEW s \in Sessions, InputsStay(s), NEW h \in Hpas
  PROVE  /\ Selected(s, h)' = Selected(s, h)
         /\ Intended(s, h)' = Intended(s, h)
         /\ PolicyRefuses(s, analysed[s][h].spec, plan[s][h])'
              <=> PolicyRefuses(s, analysed[s][h].spec, plan[s][h])
BY DEF InputsStay, Selected, Intended, PolicyRefuses, Allowed, GuardFix

LEMMA SessionFrame ==
  ASSUME TypeInv, NEW t \in Sessions, SessionInv(t), SessionStays(t)
  PROVE  SessionInv(t)'
<1> USE DEF SessionStays, InputsStay, SessionInv
<1>0. \A h \in Hpas : /\ Selected(t, h)' = Selected(t, h)
                      /\ Intended(t, h)' = Intended(t, h)
                      /\ PolicyRefuses(t, analysed[t][h].spec, plan[t][h])'
                           <=> PolicyRefuses(t, analysed[t][h].spec, plan[t][h])
  BY VerdictStays
<1>1. Reviewed(t)'
  BY <1>0 DEF Reviewed, TypeInv, ControlType, CurIsHpa
<1>2. Open(t)'
  BY DEF Open
<1>3. Accounted(t)'
  <2>1. ASSUME NEW h \in Hpas PROVE AccountedFor(t, h)' /\ WholeOrPartial(t, h)'
    <3>1. AccountedFor(t, h) /\ WholeOrPartial(t, h)
      BY DEF Accounted
    <3>2. AccountedFor(t, h)'
      BY <3>1, <1>0 DEF AccountedFor, Applying
    <3>3. WholeOrPartial(t, h)'
      BY <3>1, <1>0 DEF WholeOrPartial
    <3> QED BY <3>2, <3>3
  <2> QED BY <2>1 DEF Accounted
<1>4. Agreed(t)'
  BY DEF Agreed
<1>5. Batched(t)'
  BY DEF Batched
<1> QED
  BY <1>1, <1>2, <1>3, <1>4, <1>5

\* A session's step is its own.
LEMMA OwnStep ==
  ASSUME TypeInv, NEW s \in Sessions, Proceed(s) \/ Answer(s) \/ AnswerBatch(s),
         NEW t \in Sessions, t # s
  PROVE  SessionStays(t)
<1> USE DEF TypeInv, ControlType, InputType, ClusterType, ReportType
<1>1. /\ pc'[t] = pc[t] /\ todo'[t] = todo[t] /\ cur'[t] = cur[t] /\ kept'[t] = kept[t]
      /\ pending'[t] = pending[t] /\ consent'[t] = consent[t]
  BY DEF Proceed, Answer, AnswerBatch, AnalyzeOne, AnalyzeList, Review, ValidateOne,
       ValidateMerged, Recheck, DryRunMerged, PatchMerged, PatchNext, Finish, Goto, Conclude,
       LeaveValidation
<1>2. InputsStay(t)
  BY DEF Proceed, Answer, AnswerBatch, AnalyzeOne, AnalyzeList, Review, ValidateOne,
       ValidateMerged, Recheck, DryRunMerged, PatchMerged, PatchNext, Finish, inputs, InputsStay
<1>3. result'[t] = result[t]
  BY DEF Proceed, Answer, AnswerBatch, AnalyzeOne, AnalyzeList, Review, ValidateOne,
       ValidateMerged, Recheck, DryRunMerged, PatchMerged, PatchNext, Finish, Goto, Conclude,
       LeaveValidation, reports
<1>4. claimed'[t] = claimed[t]
  BY DEF Proceed, Answer, AnswerBatch, AnalyzeOne, AnalyzeList, Review, ValidateOne,
       ValidateMerged, Recheck, DryRunMerged, PatchMerged, PatchNext, Finish, reports
<1>5. writes'[t] = writes[t]
  <2>1. UNCHANGED writes \/ Writes(s)
    BY WritesOrNot
  <2>2. CASE Writes(s)
    BY <2>2 DEF Writes, Persist
  <2> QED BY <2>1, <2>2
<1> QED
  BY <1>1, <1>2, <1>3, <1>4, <1>5 DEF SessionStays

\* The HPA a session is about to conclude or is in the middle of.
At(s, h) == \/ pc[s] = "next" /\ h \in todo[s]
            \/ pc[s] \in Processing /\ cur[s] = h

\* The outcome of one HPA is recorded, with the write that may come with it.
LEMMA ConcludedKeeps ==
  ASSUME TypeInv, NEW s \in Sessions, SessionInv(s), InputsStay(s),
         NEW h \in Hpas, At(s, h), NEW r \in Results \ {"none"},
         pc'[s] = "next", cur'[s] = h, todo'[s] = todo[s] \ {h}, consent'[s] = consent[s],
         result'[s] = [result[s] EXCEPT ![h] = r],
         \A g \in Hpas : g # h => claimed'[s][g] = claimed[s][g] /\ writes'[s][g] = writes[s][g],
         writes'[s][h] # <<>> => consent[s] /\ ~opts[s].dryRun,
         AccountedFor(s, h)', WholeOrPartial(s, h)'
  PROVE  SessionInv(s)'
<1> USE DEF SessionInv, InputsStay
<1>0. \A g \in Hpas : /\ Selected(s, g)' = Selected(s, g)
                      /\ Intended(s, g)' = Intended(s, g)
                      /\ PolicyRefuses(s, analysed[s][g].spec, plan[s][g])'
                           <=> PolicyRefuses(s, analysed[s][g].spec, plan[s][g])
  BY VerdictStays
<1>1. /\ result'[s][h] = r /\ \A g \in Hpas : g # h => result'[s][g] = result[s][g]
      /\ pc'[s] \notin Processing /\ todo[s] \subseteq Hpas
      /\ pc[s] = "sequential" => cur[s] = h
  BY DEF TypeInv, ReportType, ControlType, Processing, At
<1>2. Reviewed(s)'
  BY <1>1 DEF Reviewed
<1>3. Open(s)'
  BY <1>1 DEF Open
<1>4. Accounted(s)'
  <2>1. ASSUME NEW g \in Hpas, g # h PROVE AccountedFor(s, g)' /\ WholeOrPartial(s, g)'
    <3>1. AccountedFor(s, g) /\ WholeOrPartial(s, g)
      BY DEF Accounted
    <3>2. AccountedFor(s, g)'
      BY <3>1, <2>1, <1>0, <1>1 DEF AccountedFor
    <3>3. WholeOrPartial(s, g)'
      BY <3>1, <2>1, <1>0 DEF WholeOrPartial
    <3> QED BY <3>2, <3>3
  <2> QED BY <2>1 DEF Accounted
<1>5. Agreed(s)'
  BY <1>1 DEF Agreed, At, Processing
<1>6. Batched(s)'
  <2> SUFFICES ASSUME opts[s].kind = "list" PROVE Batched(s)'
    BY DEF Batched
  <2>1. pc[s] # "idle" /\ pc[s] # "batchPrompt" /\ consent[s] /\ plan[s][h] # <<>>
    BY DEF At, Agreed, Open, Processing
  <2>2. ASSUME NEW g \in Hpas, g # h, plan[s][g] # <<>>, result[s][g] = "none"
        PROVE  g \in todo'[s]
    BY <2>1, <2>2 DEF Batched, At, Processing
  <2>3. \A g \in Hpas : result[s][g] # "none" => plan[s][g] # <<>>
    BY DEF Batched
  <2> QED BY <1>1, <2>1, <2>2, <2>3 DEF Batched
<1> QED
  BY <1>2, <1>3, <1>4, <1>5, <1>6

\* The session moves on with the same HPA, without a call that stores anything.
LEMMA MovedOnKeeps ==
  ASSUME TypeInv, NEW s \in Sessions, SessionInv(s), InputsStay(s),
         pc[s] \in Processing \ {"sequential"}, pc'[s] \in Processing,
         todo'[s] = todo[s], cur'[s] = cur[s], kept'[s] = kept[s], result'[s] = result[s],
         claimed'[s] = claimed[s], writes'[s] = writes[s],
         consent[s] => consent'[s],
         pc'[s] = "prompt" => ~opts[s].dryRun,
         pc'[s] \in {"execute", "dryRunMerged", "patchMerged", "sequential"}
           => consent'[s] /\ ~opts[s].dryRun,
         pc'[s] \in {"dryRunMerged", "patchMerged"} => Mergeable(Plan(s), kept[s]),
         pc'[s] = "sequential" => /\ ~Mergeable(Plan(s), kept[s]) /\ opts[s].allowPartial
                                  /\ pending'[s] = kept[s]
  PROVE  SessionInv(s)'
<1> USE DEF SessionInv, InputsStay
<1>0. \A g \in Hpas : /\ Selected(s, g)' = Selected(s, g)
                      /\ Intended(s, g)' = Intended(s, g)
                      /\ PolicyRefuses(s, analysed[s][g].spec, plan[s][g])'
                           <=> PolicyRefuses(s, analysed[s][g].spec, plan[s][g])
  BY VerdictStays
<1>1. cur[s] \in Hpas /\ kept[s] # {} /\ result[s][cur[s]] = "none"
  BY DEF TypeInv, ControlType, CurIsHpa, Reviewed, Open
<1>2. Reviewed(s)'
  BY <1>0, <1>1 DEF Reviewed, Plan
<1>3. Open(s)'
  BY DEF Open, Processing
<1>4. Accounted(s)'
  <2>1. ASSUME NEW h \in Hpas PROVE AccountedFor(s, h)' /\ WholeOrPartial(s, h)'
    <3>1. AccountedFor(s, h) /\ WholeOrPartial(s, h)
      BY DEF Accounted
    <3>2. WholeOrPartial(s, h)'
      BY <3>1, <1>0 DEF WholeOrPartial
    <3>3. CASE pc'[s] = "sequential" /\ h = cur[s]
      <4>1. Len(writes[s][h]) = 0 /\ claimed[s][h] = 0
        BY <3>1, <3>3, <1>1 DEF AccountedFor
      <4>2. Cardinality(kept[s]) \in Nat
        BY FS_CardinalityType DEF TypeInv, ControlType
      <4>3. Applying(s, h)'
        BY <4>1, <4>2, <3>3, <1>1 DEF Applying
      <4> QED BY <4>3, <3>2, <3>3, <1>1 DEF AccountedFor
    <3>4. CASE ~(pc'[s] = "sequential" /\ h = cur[s])
      BY <3>1, <3>2, <3>4, <1>0 DEF AccountedFor
    <3> QED BY <3>3, <3>4
  <2> QED BY <2>1 DEF Accounted
<1>5. Agreed(s)'
  BY DEF Agreed, Processing
<1>6. Batched(s)'
  BY DEF Batched, Agreed, Processing
<1> QED
  BY <1>2, <1>3, <1>4, <1>5, <1>6

\* Outcomes that promise that nothing was applied.
Untouched == Results \ {"none", "applied", "unknown", "partial"}

LEMMA NothingYet ==
  ASSUME TypeInv, NEW s \in Sessions, SessionInv(s), NEW h \in Hpas, At(s, h),
         pc[s] # "sequential"
  PROVE  result[s][h] = "none" /\ claimed[s][h] = 0 /\ writes[s][h] = <<>>
<1>1. result[s][h] = "none"
  BY DEF At, SessionInv, Open
<1>2. Len(writes[s][h]) = 0 /\ claimed[s][h] = 0
  BY <1>1 DEF SessionInv, Accounted, AccountedFor
<1>3. writes[s][h] \in Seq([base : Objects, to : Objects])
  BY DEF TypeInv, ClusterType
<1> HIDE DEF Objects
<1> QED
  BY <1>1, <1>2, <1>3

LEMMA RefusedKeeps ==
  ASSUME TypeInv, NEW s \in Sessions, SessionInv(s), InputsStay(s), pc[s] # "sequential",
         NEW h \in Hpas, At(s, h), NEW r \in Untouched,
         pc'[s] = "next", cur'[s] = h, todo'[s] = todo[s] \ {h}, consent'[s] = consent[s],
         result'[s] = [result[s] EXCEPT ![h] = r],
         claimed'[s] = claimed[s], writes'[s] = writes[s]
  PROVE  SessionInv(s)'
<1>1. claimed'[s][h] = 0 /\ writes'[s][h] = <<>> /\ Len(writes'[s][h]) = 0
  BY NothingYet
<1>2. result'[s][h] = r /\ r \in Results \ {"none"}
  BY DEF TypeInv, ReportType, Untouched
<1>3. AccountedFor(s, h)'
  BY <1>1, <1>2 DEF AccountedFor, Untouched
<1>4. WholeOrPartial(s, h)'
  BY <1>1 DEF WholeOrPartial
<1> QED
  BY <1>1, <1>2, <1>3, <1>4, ConcludedKeeps

\* Concluding the HPA in hand leaves the rest of the batch as it is.
LEMMA InHand ==
  ASSUME SafeInv, NEW s \in Sessions, pc[s] \in Processing
  PROVE  cur[s] \in Hpas /\ At(s, cur[s]) /\ todo[s] = todo[s] \ {cur[s]}
BY DEF SafeInv, TypeInv, ControlType, CurIsHpa, Remembers, RemembersAt, At

LEMMA ReviewKeeps ==
  ASSUME SafeInv, NEW s \in Sessions, SessionInv(s), NEW h \in Hpas, Review(s, h)
  PROVE  SessionInv(s)'
<1> DEFINE ps == plan[s][h]
           K == Allowed(s, hpa[h].spec, ps)
<1>0. TypeInv
  BY DEF SafeInv
<1>1. /\ pc[s] = "next" /\ h \in todo[s] /\ At(s, h)
      /\ cur'[s] = h /\ todo'[s] = todo[s] \ {h} /\ consent'[s] = consent[s]
      /\ claimed'[s] = claimed[s] /\ writes'[s] = writes[s] /\ InputsStay(s)
  BY <1>0 DEF Review, At, inputs, InputsStay, TypeInv, ControlType
<1>2. CASE \E r \in {"rejected", "stale", "blocked", "noneAllowed"} :
             result' = [result EXCEPT ![s][h] = r] /\ Goto(s, "next")
  <2>1. PICK r \in {"rejected", "stale", "blocked", "noneAllowed"} :
             result' = [result EXCEPT ![s][h] = r] /\ pc' = [pc EXCEPT ![s] = "next"]
    BY <1>2 DEF Goto
  <2>2. r \in Untouched
    BY DEF Untouched, Results, Failures
  <2>3. result'[s] = [result[s] EXCEPT ![h] = r] /\ pc'[s] = "next"
    BY <1>0, <2>1 DEF TypeInv, ReportType, ControlType
  <2> QED BY <1>0, <1>1, <2>2, <2>3, RefusedKeeps
<1>3. CASE /\ hpa[h] # None /\ SourceMatches(s, h)
           /\ ~PolicyRefuses(s, hpa[h].spec, ps) /\ K # {}
           /\ kept' = [kept EXCEPT ![s] = K]
           /\ Goto(s, IF opts[s].kind = "exec" THEN "execute" ELSE "validate")
           /\ UNCHANGED result
  <2>1. hpa[h] = analysed[s][h]
    BY <1>1, <1>3 DEF SafeInv, Remembers, RemembersAt, Versions, Known, SourceMatches
  <2>2. /\ kept'[s] = Selected(s, h) /\ kept'[s] # {}
        /\ ~PolicyRefuses(s, analysed[s][h].spec, plan[s][h])
    BY <1>0, <1>3, <2>1 DEF Selected, TypeInv, ControlType
  <2>3. /\ pc'[s] \in {"execute", "validate"} /\ result' = result
        /\ pc'[s] = "execute" => opts[s].kind = "exec"
    BY <1>0, <1>3 DEF Goto, TypeInv, ControlType
  <2>4. result[s][h] = "none" /\ plan[s][h] # <<>>
    BY <1>1 DEF SessionInv, Open
  <2>5. \A g \in Hpas : /\ Selected(s, g)' = Selected(s, g)
                        /\ Intended(s, g)' = Intended(s, g)
                        /\ PolicyRefuses(s, analysed[s][g].spec, plan[s][g])'
                             <=> PolicyRefuses(s, analysed[s][g].spec, plan[s][g])
    BY <1>1, VerdictStays
  <2> HIDE DEF K, ps
  <2> USE DEF SessionInv, InputsStay
  <2>6. Reviewed(s)'
    BY <1>1, <2>2, <2>3, <2>5 DEF Reviewed
  <2>7. Open(s)'
    BY <1>1, <2>3, <2>4 DEF Open
  <2>8. Accounted(s)'
    <3>1. ASSUME NEW g \in Hpas PROVE AccountedFor(s, g)' /\ WholeOrPartial(s, g)'
      <4>1. AccountedFor(s, g) /\ WholeOrPartial(s, g)
        BY DEF Accounted
      <4>2. AccountedFor(s, g)'
        BY <4>1, <1>1, <2>3, <2>5 DEF AccountedFor
      <4>3. WholeOrPartial(s, g)'
        BY <4>1, <1>1, <2>5 DEF WholeOrPartial
      <4> QED BY <4>2, <4>3
    <3> QED BY <3>1 DEF Accounted
  <2>9. Agreed(s)'
    BY <1>0, <1>1, <2>3, ApplyAssumption DEF Agreed, TypeInv, InputType
  <2>10. Batched(s)'
    BY <1>1, <2>3, <2>4 DEF Batched, Agreed, Processing
  <2> QED BY <2>6, <2>7, <2>8, <2>9, <2>10
<1> QED
  BY <1>2, <1>3 DEF Review

\* The steps between a review and the live patches.
LEMMA ChecksKeep ==
  ASSUME SafeInv, NEW s \in Sessions, SessionInv(s),
         ValidateOne(s) \/ ValidateMerged(s) \/ Answer(s) \/ Recheck(s) \/ DryRunMerged(s)
  PROVE  SessionInv(s)'
<1> DEFINE h == cur[s]
<1>0. TypeInv
  BY DEF SafeInv
<1>1. /\ pc[s] \in Processing \ {"sequential"} /\ InputsStay(s)
      /\ todo'[s] = todo[s] /\ cur'[s] = h /\ kept'[s] = kept[s]
      /\ claimed'[s] = claimed[s] /\ writes'[s] = writes[s]
  BY DEF ValidateOne, ValidateMerged, Answer, Recheck, DryRunMerged, Processing, inputs, InputsStay
<1>2. h \in Hpas /\ At(s, h) /\ todo[s] = todo[s] \ {h}
  BY <1>1, InHand
<1>3. ASSUME NEW r \in {"rejected", "validated", "stale", "unmergeable", "skipped"}, Conclude(s, r),
             consent' = consent
      PROVE  SessionInv(s)'
  <2>1. r \in Untouched
    BY DEF Untouched, Results, Failures
  <2>2. result'[s] = [result[s] EXCEPT ![h] = r] /\ pc'[s] = "next"
    BY <1>0, <1>3 DEF Conclude, TypeInv, ReportType, ControlType
  <2>3. pc[s] # "sequential" /\ todo'[s] = todo[s] \ {h} /\ consent'[s] = consent[s]
    BY <1>1, <1>2, <1>3
  <2> HIDE DEF h
  <2> QED BY <1>0, <1>1, <1>2, <2>1, <2>2, <2>3, RefusedKeeps
<1> DEFINE Moves ==
      /\ pc'[s] \in Processing /\ result'[s] = result[s]
      /\ consent[s] => consent'[s]
      /\ pc'[s] = "prompt" => ~opts[s].dryRun
      /\ pc'[s] \in {"execute", "dryRunMerged", "patchMerged", "sequential"}
           => consent'[s] /\ ~opts[s].dryRun
      /\ pc'[s] \in {"dryRunMerged", "patchMerged"} => Mergeable(Plan(s), kept[s])
      /\ pc'[s] = "sequential" => /\ ~Mergeable(Plan(s), kept[s]) /\ opts[s].allowPartial
                                  /\ pending'[s] = kept[s]
<1>4. ASSUME Moves PROVE SessionInv(s)'
  BY <1>0, <1>1, <1>4, MovedOnKeeps
<1> USE DEF TypeInv, ControlType
<1> HIDE DEF h
<1>5. ASSUME NEW w, pc' = [pc EXCEPT ![s] = w] PROVE pc'[s] = w
  BY <1>0, <1>5
<1>6. ASSUME opts[s].dryRun = FALSE, consent' = consent, result' = result, pc[s] \in {"validate", "validateMerged"},
             pc' = [pc EXCEPT ![s] = AfterValidation(s)]
      PROVE  Moves
  <2>1. pc'[s] = IF ~opts[s].yes /\ opts[s].kind = "status" THEN "prompt" ELSE "execute"
    BY <1>0, <1>6 DEF AfterValidation
  <2>2. opts[s].kind \in Kinds /\ opts[s].yes \in BOOLEAN
    BY <1>0, ApplyAssumption DEF InputType, AllOptions
  <2>3. opts[s].yes \/ opts[s].kind = "exec" \/ opts[s].kind = "list" => consent[s]
    BY <1>6 DEF SessionInv, Agreed, Processing
  <2> QED BY <1>6, <2>1, <2>2, <2>3 DEF Processing, Kinds
<1>7. opts[s].dryRun \in BOOLEAN
  BY <1>0, ApplyAssumption DEF InputType, AllOptions
<1>8. LeaveValidation(s) /\ consent' = consent /\ pc[s] \in {"validate", "validateMerged"} => SessionInv(s)'
  BY <1>3, <1>4, <1>6, <1>7 DEF LeaveValidation, AfterValidation, Goto
<1>9. CASE ValidateOne(s)
  <2>1. consent' = consent
    BY <1>9 DEF ValidateOne
  <2>2. \/ Conclude(s, "rejected")
        \/ UNCHANGED <<pc, result>>
        \/ Goto(s, "validateMerged") /\ UNCHANGED result
        \/ LeaveValidation(s)
    BY <1>9 DEF ValidateOne
  <2>3. pc[s] = "validate"
    BY <1>9 DEF ValidateOne
  <2>4. UNCHANGED <<pc, result>> => Moves
    BY <1>1, <2>1, <2>3
  <2>5. Goto(s, "validateMerged") /\ UNCHANGED result => Moves
    BY <2>1, <1>5 DEF Goto, Processing
  <2> QED BY <1>3, <1>4, <1>8, <2>1, <2>2, <2>3, <2>4, <2>5
<1>10. CASE ValidateMerged(s)
  BY <1>3, <1>8, <1>10 DEF ValidateMerged
<1>11. CASE Answer(s)
  <2>1. Goto(s, "execute") /\ consent' = [consent EXCEPT ![s] = TRUE] /\ UNCHANGED result => Moves
    BY <1>0, <1>5, <1>11 DEF Goto, Processing, Answer, SessionInv, Agreed
  <2> QED BY <1>3, <1>4, <1>11, <2>1 DEF Answer
<1>12. CASE Recheck(s)
  <2>1. consent' = consent /\ pending'[s] = kept[s] /\ consent[s] /\ ~opts[s].dryRun
    BY <1>0, <1>12 DEF Recheck, SessionInv, Agreed
  <2>2. ASSUME Mergeable(Plan(s), kept[s]), Goto(s, "dryRunMerged"), UNCHANGED result
        PROVE  Moves
    BY <2>1, <2>2, <1>5 DEF Goto, Processing
  <2>3. ASSUME ~Mergeable(Plan(s), kept[s]), opts[s].allowPartial, Goto(s, "sequential"), UNCHANGED result
        PROVE  Moves
    BY <2>1, <2>3, <1>5 DEF Goto, Processing
  <2> QED BY <1>3, <1>4, <1>12, <2>1, <2>2, <2>3 DEF Recheck
<1>13. CASE DryRunMerged(s)
  <2>1. consent' = consent /\ consent[s] /\ ~opts[s].dryRun
    BY <1>13 DEF DryRunMerged, SessionInv, Agreed
  <2>2. Mergeable(Plan(s), kept[s])
    BY <1>13 DEF DryRunMerged, SessionInv, Reviewed, Processing, Plan
  <2>3. Goto(s, "patchMerged") /\ UNCHANGED result => Moves
    BY <2>1, <2>2, <1>5 DEF Goto, Processing
  <2> QED BY <1>3, <1>4, <1>13, <2>1, <2>3 DEF DryRunMerged
<1> QED
  BY <1>9, <1>10, <1>11, <1>12, <1>13

\* The single live patch.
LEMMA MergedKeeps ==
  ASSUME SafeInv, NEW s \in Sessions, SessionInv(s), PatchMerged(s)
  PROVE  SessionInv(s)'
<1>0. TypeInv
  BY DEF SafeInv
<1>h. PICK h \in Hpas : h = cur[s] /\ At(s, h) /\ todo[s] = todo[s] \ {h}
  BY InHand DEF PatchMerged, Processing
<1> DEFINE p == MergePatches(Plan(s), kept[s])
<1>1. /\ pc[s] = "patchMerged" /\ InputsStay(s)
      /\ todo'[s] = todo[s] /\ cur'[s] = h /\ consent'[s] = consent[s]
  BY <1>h DEF PatchMerged, inputs, InputsStay
<1>3. result[s][h] = "none" /\ claimed[s][h] = 0 /\ writes[s][h] = <<>>
  BY <1>0, <1>1, <1>h, NothingYet
<1>4. /\ kept[s] = Selected(s, h) /\ kept[s] # {} /\ Mergeable(plan[s][h], kept[s])
      /\ ~PolicyRefuses(s, analysed[s][h].spec, plan[s][h])
  BY <1>1, <1>h DEF SessionInv, Reviewed, Processing
<1>5. /\ Selected(s, h)' = Selected(s, h) /\ Intended(s, h)' = Intended(s, h)
      /\ PolicyRefuses(s, analysed[s][h].spec, plan[s][h])'
           <=> PolicyRefuses(s, analysed[s][h].spec, plan[s][h])
      /\ plan'[s][h] = plan[s][h] /\ opts'[s] = opts[s]
  BY <1>1, <1>h, VerdictStays DEF InputsStay
<1>6. consent[s] /\ ~opts[s].dryRun
  BY <1>1 DEF SessionInv, Agreed
<1>7. \E r \in {"unknown", "applied"} :
        /\ Conclude(s, r)
        /\ r = "unknown" => claimed' = claimed
        /\ r = "applied" => /\ claimed' = [claimed EXCEPT ![s][h] = Cardinality(kept[s])]
                            /\ AdmitsAt(h, p, reviewed[s]) /\ Persist(s, p)
        /\ UNCHANGED writes \/ (AdmitsAt(h, p, reviewed[s]) /\ Persist(s, p))
  BY <1>h DEF PatchMerged
<1>8. PICK r \in {"unknown", "applied"} :
        /\ pc'[s] = "next" /\ result'[s] = [result[s] EXCEPT ![h] = r]
        /\ \A g \in Hpas : g # h => claimed'[s][g] = claimed[s][g] /\ writes'[s][g] = writes[s][g]
        /\ r = "unknown" => claimed'[s][h] = 0
        /\ r = "applied" => /\ claimed'[s][h] = Cardinality(kept[s])
                            /\ AdmitsAt(h, p, reviewed[s]) /\ Persist(s, p)
        /\ writes'[s][h] = <<>> \/ (AdmitsAt(h, p, reviewed[s]) /\ Persist(s, p))
  <2>1. PICK r \in {"unknown", "applied"} :
        /\ Conclude(s, r)
        /\ r = "unknown" => claimed' = claimed
        /\ r = "applied" => /\ claimed' = [claimed EXCEPT ![s][h] = Cardinality(kept[s])]
                            /\ AdmitsAt(h, p, reviewed[s]) /\ Persist(s, p)
        /\ UNCHANGED writes \/ (AdmitsAt(h, p, reviewed[s]) /\ Persist(s, p))
    BY <1>7
  <2>2. pc'[s] = "next" /\ result'[s] = [result[s] EXCEPT ![h] = r]
    BY <1>0, <1>h, <2>1 DEF Conclude, TypeInv, ControlType, ReportType
  <2>3. /\ \A g \in Hpas : g # h => claimed'[s][g] = claimed[s][g]
        /\ r = "unknown" => claimed'[s][h] = 0
        /\ r = "applied" => claimed'[s][h] = Cardinality(kept[s])
    BY <1>0, <1>h, <1>3, <2>1 DEF TypeInv, ReportType
  <2>4. \A g \in Hpas : g # h => writes'[s][g] = writes[s][g]
    BY <1>0, <1>h, <2>1 DEF TypeInv, ClusterType, Persist
  <2>5. writes'[s][h] = <<>> \/ (AdmitsAt(h, p, reviewed[s]) /\ Persist(s, p))
    BY <1>3, <2>1
  <2> QED BY <2>1, <2>2, <2>3, <2>4, <2>5
\* What is stored is the whole intended state of the analysed object.
<1>9. ASSUME AdmitsAt(h, p, reviewed[s]), Persist(s, p)
      PROVE  /\ writes'[s][h] # <<>> /\ Len(writes'[s][h]) = 1
             /\ writes'[s][h][1].to.spec = Intended(s, h)
  <2>1. Adds(s, p)
    BY <1>1, <1>h, <1>9 DEF Adds, Persist
  <2>2. hpa[h] = analysed[s][h] /\ hpa[h] \in Objects /\ Stored(h, p) \in Objects
    BY <2>1, <1>h, <1>3, WriteMeets
  <2>3. writes'[s][h] = Append(<<>>, [base |-> hpa[h], to |-> Stored(h, p)])
    BY <1>0, <1>h, <1>3, <1>9 DEF Persist, TypeInv, ClusterType
  <2>4. Stored(h, p).spec = Patched(hpa[h].spec, p)
    BY <2>2 DEF Stored, Objects
  <2>5. Patched(hpa[h].spec, p) = Intended(s, h)
    BY <1>4, <1>h, <2>2 DEF Intended, Selected, Plan
  <2> QED BY <2>2, <2>3, <2>4, <2>5
<1>10. writes'[s][h] # <<>> => /\ Len(writes'[s][h]) = 1
                               /\ writes'[s][h][1].to.spec = Intended(s, h)
  BY <1>8, <1>9
<1>11. r = "applied" => Len(writes'[s][h]) = 1
  BY <1>8, <1>9
<1>12. Len(writes'[s][h]) <= 1 /\ Len(writes'[s][h]) \in Nat
  <2> DEFINE n == Len(writes'[s][h])
  <2>1. n = 0 \/ n = 1
    BY <1>10
  <2> HIDE DEF n
  <2>2. n <= 1 /\ n \in Nat
    BY <2>1
  <2> QED BY <2>2 DEF n
<1>13. WholeOrPartial(s, h)'
  BY <1>1, <1>4, <1>5, <1>10 DEF WholeOrPartial
<1>14. AccountedFor(s, h)'
  <2>1. result'[s][h] = r
    BY <1>0, <1>h, <1>8 DEF TypeInv, ReportType
  <2> QED BY <1>4, <1>5, <1>8, <1>11, <1>12, <2>1 DEF AccountedFor
<1>w. r \in Results \ {"none"}
  BY DEF Results, Failures
<1> QED
  BY <1>0, <1>1, <1>h, <1>6, <1>8, <1>13, <1>14, <1>w, ConcludedKeeps

\* The loop of the fallback always has a next suggestion.
LEMMA NextIndexPending ==
  ASSUME NEW s \in Sessions, pending[s] \in SUBSET Nat, pending[s] # {}
  PROVE  NextIndex(s) \in pending[s]
<1> DEFINE X == pending[s]
<1>1. PICK m \in X : \A k \in X : <<k, m>> \notin OpToRel(<, Nat)
  BY NatLessThanWellFounded, WFMin
<1>2. ASSUME NEW k \in X, k < m
      PROVE  <<k, m>> \in OpToRel(<, Nat)
  BY <1>2 DEF OpToRel
<1>3. \A k \in X : ~(k < m)
  BY <1>1, <1>2, Zenon
<1>4. m \in X /\ \A k \in X : m <= k
  BY <1>3
<1> QED
  BY <1>4 DEF NextIndex

\* In block mode nothing undecodable is let through, so the kept patches merge.
LEMMA BlockedMerges ==
  ASSUME NEW s \in Sessions, NEW spec, NEW ps, opts[s].guard = "block"
  PROVE  Mergeable(ps, Allowed(s, spec, ps))
BY DEF Allowed, GuardFix, Mergeable

\* One patch of the sequential fallback.
LEMMA NextKeeps ==
  ASSUME SafeInv, NEW s \in Sessions, SessionInv(s), PatchNext(s)
  PROVE  SessionInv(s)'
<1>0. TypeInv
  BY DEF SafeInv
<1>h. PICK h \in Hpas : h = cur[s] /\ At(s, h) /\ todo[s] = todo[s] \ {h}
  BY InHand DEF PatchNext, Processing
<1> DEFINE i == NextIndex(s)
           n == Len(writes[s][h])
           c == claimed[s][h]
<1>1. /\ pc[s] = "sequential" /\ InputsStay(s) /\ kept'[s] = kept[s]
      /\ todo'[s] = todo[s] /\ cur'[s] = h /\ consent'[s] = consent[s]
  BY <1>h DEF PatchNext, inputs, InputsStay
<1>2. /\ kept[s] = Selected(s, h) /\ kept[s] # {} /\ opts[s].allowPartial
      /\ ~Mergeable(plan[s][h], kept[s])
      /\ ~PolicyRefuses(s, analysed[s][h].spec, plan[s][h])
      /\ result[s][h] = "none" /\ plan[s][h] # <<>>
  BY <1>1, <1>h DEF SessionInv, Reviewed, Open, Processing
<1>3. Applying(s, h)
  BY <1>1, <1>2, <1>h DEF SessionInv, Accounted, AccountedFor
<1>4. opts[s].guard # "block"
  BY <1>2, BlockedMerges DEF Selected
<1>5. /\ pending[s] \in SUBSET Nat /\ IsFiniteSet(pending[s]) /\ IsFiniteSet(kept[s])
      /\ i \in pending[s]
  <2>1. pending[s] \in SUBSET Nat /\ pending[s] # {} /\ pending[s] \subseteq kept[s] /\ IsFiniteSet(kept[s])
    BY <1>0, <1>3 DEF TypeInv, ControlType, Applying
  <2> QED BY <2>1, FS_Subset, NextIndexPending
<1>6. /\ c \in Nat /\ n = c /\ Cardinality(pending[s]) \in Nat /\ Cardinality(kept[s]) \in Nat
      /\ c + Cardinality(pending[s]) = Cardinality(kept[s])
      /\ Cardinality(pending[s] \ {i}) = Cardinality(pending[s]) - 1
  <2>1. c \in Nat /\ n = c
    BY <1>0, <1>3 DEF Applying, TypeInv, ReportType
  <2>2. Cardinality(pending[s]) \in Nat /\ Cardinality(kept[s]) \in Nat
    BY <1>5, FS_CardinalityType
  <2>3. c + Cardinality(pending[s]) = Cardinality(kept[s])
    BY <1>3 DEF Applying
  <2>4. Cardinality(pending[s] \ {i}) = Cardinality(pending[s]) - 1
    <3> HIDE DEF i
    <3> QED BY <1>5, FS_RemoveElement
  <2> QED BY <2>1, <2>2, <2>3, <2>4
<1>7. \A g \in Hpas : /\ Selected(s, g)' = Selected(s, g)
                      /\ Intended(s, g)' = Intended(s, g)
                      /\ PolicyRefuses(s, analysed[s][g].spec, plan[s][g])'
                           <=> PolicyRefuses(s, analysed[s][g].spec, plan[s][g])
  BY <1>1, VerdictStays
<1>8. plan'[s][h] = plan[s][h] /\ opts'[s] = opts[s]
  BY <1>1 DEF InputsStay
<1>9. WholeOrPartial(s, h)'
  BY <1>2, <1>4, <1>7, <1>8 DEF WholeOrPartial
<1>w. ASSUME NEW p, Admits(h, p), Persist(s, p)
       PROVE  /\ \A g \in Hpas : g # h => writes'[s][g] = writes[s][g]
              /\ Len(writes'[s][h]) = n + 1
  <2> DEFINE W == [base : Objects, to : Objects]
             e == [base |-> hpa[h], to |-> Stored(h, p)]
  <2>1. e \in W
    BY <1>0, <1>w, StoredVersion
  <2>2. writes[s][h] \in Seq(W)
    BY <1>0 DEF TypeInv, ClusterType
  <2>3. writes'[s][h] = Append(writes[s][h], e)
        /\ \A g \in Hpas : g # h => writes'[s][g] = writes[s][g]
    BY <1>0, <1>h, <1>w DEF Persist, TypeInv, ClusterType
  <2> HIDE DEF W, e
  <2> QED BY <2>1, <2>2, <2>3, AppendFacts
<1>10. /\ \A g \in Hpas : g # h => claimed'[s][g] = claimed[s][g] /\ writes'[s][g] = writes[s][g]
       /\ writes'[s][h] = writes[s][h] \/ Len(writes'[s][h]) = n + 1
  <2>1. \A g \in Hpas : g # h => claimed'[s][g] = claimed[s][g]
    BY <1>0, <1>h DEF PatchNext, TypeInv, ReportType
  <2>2. UNCHANGED writes \/ \E p : Admits(h, p) /\ Persist(s, p)
    BY <1>h DEF PatchNext, AdmitsAt
  <2> QED BY <2>1, <2>2, <1>w
<1>11. consent[s] /\ ~opts[s].dryRun
  BY <1>1 DEF SessionInv, Agreed
<1>12. CASE Conclude(s, "partial") /\ claimed' = claimed
  <2>1. pc'[s] = "next" /\ result'[s] = [result[s] EXCEPT ![h] = "partial"] /\ result'[s][h] = "partial"
    BY <1>0, <1>h, <1>12 DEF Conclude, TypeInv, ControlType, ReportType
  <2>2. claimed'[s][h] = c /\ (Len(writes'[s][h]) = n \/ Len(writes'[s][h]) = n + 1)
    BY <1>10, <1>12
  <2>3. AccountedFor(s, h)'
    BY <1>6, <2>1, <2>2 DEF AccountedFor
  <2>4. "partial" \in Results \ {"none"}
    BY DEF Results, Failures
  <2> QED BY <1>0, <1>1, <1>h, <1>9, <1>10, <1>11, <2>1, <2>3, <2>4, ConcludedKeeps
<1>13. ASSUME claimed' = [claimed EXCEPT ![s][h] = c + 1], pending' = [pending EXCEPT ![s] = pending[s] \ {i}],
              Len(writes'[s][h]) = n + 1,
              \/ pending[s] = {i} /\ Conclude(s, "applied")
              \/ pending[s] # {i} /\ UNCHANGED <<pc, result>>
       PROVE  SessionInv(s)'
  <2>1. claimed'[s][h] = c + 1 /\ pending'[s] = pending[s] \ {i}
    BY <1>0, <1>13 DEF TypeInv, ReportType, ControlType
  <2>2. CASE pending[s] = {i} /\ Conclude(s, "applied")
    <3>1. pc'[s] = "next" /\ result'[s] = [result[s] EXCEPT ![h] = "applied"] /\ result'[s][h] = "applied"
      BY <1>0, <1>h, <2>2 DEF Conclude, TypeInv, ControlType, ReportType
    <3>2. Cardinality(pending[s]) = 1
      BY <2>2, FS_Singleton
    <3>3. AccountedFor(s, h)'
      BY <1>2, <1>6, <1>7, <1>8, <1>13, <2>1, <3>1, <3>2 DEF AccountedFor
    <3>4. "applied" \in Results \ {"none"}
      BY DEF Results, Failures
    <3> QED BY <1>0, <1>1, <1>h, <1>9, <1>10, <1>11, <3>1, <3>3, <3>4, ConcludedKeeps
  <2>3. CASE pending[s] # {i} /\ UNCHANGED <<pc, result>>
    <3> USE DEF SessionInv
    <3>1. pc'[s] = "sequential" /\ result'[s] = result[s]
      BY <1>1, <2>3
    <3>2. Reviewed(s)'
      BY <1>1, <1>2, <1>7, <1>8, <3>1 DEF Reviewed
    <3>3. Open(s)'
      BY <1>1, <1>2, <1>8, <3>1 DEF Open, InputsStay
    <3>4. Applying(s, h)'
      <4>1. Len(writes'[s][h]) = claimed'[s][h]
        BY <1>6, <1>13, <2>1
      <4>2. pending'[s] \subseteq kept'[s] /\ pending'[s] # {}
        BY <1>1, <1>3, <2>1, <2>3, <1>5 DEF Applying
      <4>3. claimed'[s][h] + Cardinality(pending'[s]) = Cardinality(kept'[s])
        <5>1. /\ claimed'[s][h] = c + 1 /\ kept'[s] = kept[s]
              /\ Cardinality(pending'[s]) = Cardinality(pending[s]) - 1
          BY <1>1, <1>6, <2>1
        <5> HIDE DEF c, i
        <5> QED BY <5>1, <1>6
      <4> QED BY <4>1, <4>2, <4>3 DEF Applying
    <3>5. Accounted(s)'
      <4>1. AccountedFor(s, h)'
        BY <1>1, <1>2, <3>1, <3>4 DEF AccountedFor
      <4>2. ASSUME NEW g \in Hpas, g # h PROVE AccountedFor(s, g)' /\ WholeOrPartial(s, g)'
        <5>1. AccountedFor(s, g) /\ WholeOrPartial(s, g)
          BY DEF Accounted
        <5>2. AccountedFor(s, g)'
          BY <5>1, <4>2, <1>1, <1>h, <1>7, <1>10, <3>1 DEF AccountedFor, InputsStay
        <5>3. WholeOrPartial(s, g)'
          BY <5>1, <4>2, <1>1, <1>7, <1>10 DEF WholeOrPartial, InputsStay
        <5> QED BY <5>2, <5>3
      <4> QED BY <4>1, <4>2, <1>9 DEF Accounted
    <3>6. Agreed(s)'
      BY <1>1, <1>10, <1>11, <3>1 DEF Agreed, InputsStay
    <3>7. Batched(s)'
      BY <1>1, <1>h, <3>1 DEF Batched, InputsStay
    <3> QED BY <3>2, <3>3, <3>5, <3>6, <3>7
  <2> QED BY <1>13, <2>2, <2>3
<1>14. \/ Conclude(s, "partial") /\ claimed' = claimed
       \/ /\ claimed' = [claimed EXCEPT ![s][h] = c + 1] /\ pending' = [pending EXCEPT ![s] = pending[s] \ {i}]
          /\ \E p : Admits(h, p) /\ Persist(s, p)
          /\ \/ pending[s] = {i} /\ Conclude(s, "applied")
             \/ pending[s] # {i} /\ UNCHANGED <<pc, result>>
  BY <1>h DEF PatchNext, AdmitsAt
<1> HIDE DEF i, n, c
<1> QED
  BY <1>12, <1>13, <1>14, <1>w

\* Before its analysis a session has done nothing.
LEMMA Fresh ==
  ASSUME SafeInv, NEW s \in Sessions, SessionInv(s), pc[s] = "idle"
  PROVE  \A h \in Hpas : result[s][h] = "none" /\ claimed[s][h] = 0 /\ writes[s][h] = <<>>
<1>1. \A h \in Hpas : result[s][h] = "none" /\ writes[s][h] = <<>>
  BY DEF SessionInv, Open, SafeInv, Remembers, RemembersAt
<1>2. \A h \in Hpas : claimed[s][h] = 0
  BY <1>1 DEF SessionInv, Accounted, AccountedFor
<1> QED
  BY <1>1, <1>2

LEMMA AnalyzeKeeps ==
  ASSUME SafeInv, NEW s \in Sessions, SessionInv(s), AnalyzeOne(s) \/ AnalyzeList(s)
  PROVE  SessionInv(s)'
<1> USE DEF SessionInv
<1>0. TypeInv
  BY DEF SafeInv
<1>1. /\ pc[s] = "idle" /\ writes' = writes /\ claimed' = claimed /\ opts' = opts
      /\ pc'[s] \in {"next", "batchPrompt"} /\ pc'[s] \notin Processing
  BY <1>0 DEF AnalyzeOne, AnalyzeList, Goto, reports, TypeInv, ControlType, Processing
<1>2. \A h \in Hpas : /\ result[s][h] = "none" /\ claimed'[s][h] = 0
                      /\ writes'[s][h] = <<>> /\ Len(writes'[s][h]) = 0
  BY <1>1, Fresh
<1>3. Reviewed(s)'
  BY <1>1 DEF Reviewed
<1>4. /\ \A h \in Hpas : result'[s][h] \in {"none", "rejected", "noneApplicable"}
      /\ opts[s].kind = "list" => result' = result
      /\ \A h \in todo'[s] : result'[s][h] = "none" /\ plan'[s][h] # <<>>
      /\ todo'[s] \subseteq Hpas
  <2>0. todo'[s] \subseteq Hpas
    <3>1. TypeInv'
      BY <1>0, TypeAnalyze
    <3> QED BY <3>1 DEF TypeInv, ControlType
  <2>1. CASE AnalyzeList(s)
    BY <1>0, <1>2, <2>0, <2>1 DEF AnalyzeList, reports, TypeInv, ControlType, InputType
  <2>2. CASE AnalyzeOne(s)
    <3>1. todo[s] = {}
      BY <1>1 DEF Open
    <3> QED BY <1>0, <1>2, <2>0, <2>2, <3>1 DEF AnalyzeOne, TypeInv, ControlType, InputType, ReportType
  <2> QED BY <2>1, <2>2
<1>5. Open(s)'
  BY <1>1, <1>4 DEF Open
<1>6. Accounted(s)'
  BY <1>1, <1>2, <1>4 DEF Accounted, AccountedFor, WholeOrPartial, Processing
<1>7. Agreed(s)'
  <2>1. consent'[s] = (opts[s].yes \/ opts[s].kind = "exec")
    BY <1>0, ApplyAssumption DEF AnalyzeOne, AnalyzeList, TypeInv, ControlType, InputType, AllOptions
  <2> QED BY <1>0, <1>1, <1>2, <2>1 DEF Agreed, AnalyzeList, AnalyzeOne, Goto, TypeInv, ControlType
<1>8. Batched(s)'
  <2> SUFFICES ASSUME opts[s].kind = "list" PROVE Batched(s)'
    BY <1>1 DEF Batched
  <2>1. AnalyzeList(s)
    BY DEF AnalyzeOne
  <2> QED BY <1>0, <1>1, <1>2, <1>4, <2>1 DEF Batched, AnalyzeList, Goto, TypeInv, ControlType, InputType
<1> QED
  BY <1>3, <1>5, <1>6, <1>7, <1>8

LEMMA BatchMovesKeep ==
  ASSUME SafeInv, NEW s \in Sessions, SessionInv(s), AnswerBatch(s) \/ Finish(s)
  PROVE  SessionInv(s)'
<1> USE DEF SessionInv
<1>0. TypeInv
  BY DEF SafeInv
<1>1. /\ InputsStay(s) /\ result' = result /\ claimed' = claimed /\ writes' = writes
      /\ pc[s] \in {"next", "batchPrompt"} /\ pc'[s] \in {"next", "done"}
      /\ pc'[s] \notin Processing /\ pc[s] \notin Processing
      /\ todo'[s] \subseteq todo[s] /\ (pc'[s] = "done" => todo'[s] = {})
      /\ consent[s] => consent'[s]
  BY <1>0 DEF AnswerBatch, Finish, Goto, inputs, reports, InputsStay, Processing, TypeInv, ControlType
<1>2. \A g \in Hpas : /\ Selected(s, g)' = Selected(s, g)
                      /\ Intended(s, g)' = Intended(s, g)
                      /\ PolicyRefuses(s, analysed[s][g].spec, plan[s][g])'
                           <=> PolicyRefuses(s, analysed[s][g].spec, plan[s][g])
  BY <1>1, VerdictStays
<1>3. Reviewed(s)'
  BY <1>1 DEF Reviewed
<1>4. Open(s)'
  BY <1>1 DEF Open, InputsStay
<1>5. Accounted(s)'
  <2>1. ASSUME NEW g \in Hpas PROVE AccountedFor(s, g)' /\ WholeOrPartial(s, g)'
    <3>1. AccountedFor(s, g) /\ WholeOrPartial(s, g)
      BY DEF Accounted
    <3>2. AccountedFor(s, g)'
      BY <3>1, <1>1, <1>2 DEF AccountedFor, Processing, InputsStay
    <3>3. WholeOrPartial(s, g)'
      BY <3>1, <1>1, <1>2 DEF WholeOrPartial, InputsStay
    <3> QED BY <3>2, <3>3
  <2> QED BY <2>1 DEF Accounted
<1>6. Agreed(s)'
  BY <1>0, <1>1 DEF Agreed, InputsStay, AnswerBatch, Finish, Goto, TypeInv, ControlType
<1>7. Batched(s)'
  <2>1. CASE AnswerBatch(s)
    BY <1>0, <1>1, <2>1 DEF Batched, InputsStay, AnswerBatch, Goto, TypeInv, ControlType
  <2>2. CASE Finish(s)
    BY <1>0, <1>1, <2>2 DEF Batched, InputsStay, Finish, Goto, TypeInv, ControlType
  <2> QED BY <2>1, <2>2
<1> QED
  BY <1>3, <1>4, <1>5, <1>6, <1>7

LEMMA ApplyInit == Init => ApplyInv
<1> SUFFICES ASSUME Init, NEW s \in Sessions PROVE SessionInv(s)
  BY SafeInit DEF ApplyInv
<1>1. \A h \in Hpas : /\ writes[s][h] = <<>> /\ Len(writes[s][h]) = 0
                      /\ claimed[s][h] = 0 /\ result[s][h] = "none"
  BY DEF Init
<1>2. /\ pc[s] = "idle" /\ todo[s] = {}
      /\ analysed[s] = [h \in Hpas |-> None] /\ plan[s] = [h \in Hpas |-> <<>>]
  BY DEF Init
<1>3. Open(s)
  BY <1>1, <1>2 DEF Open, Processing
<1>4. Accounted(s)
  BY <1>1, <1>2 DEF Accounted, AccountedFor, WholeOrPartial
<1>5. Reviewed(s) /\ Agreed(s) /\ Batched(s)
  BY <1>1, <1>2 DEF Reviewed, Agreed, Batched, Processing
<1> QED
  BY <1>3, <1>4, <1>5 DEF SessionInv

LEMMA ApplyNext == ApplyInv /\ [Next]_vars => ApplyInv'
<1> SUFFICES ASSUME ApplyInv, [Next]_vars PROVE ApplyInv'
  OBVIOUS
<1>0. SafeInv /\ TypeInv /\ SafeInv' /\ \A s \in Sessions : SessionInv(s)
  BY SafeNext DEF ApplyInv, SafeInv
<1>1. CASE UNCHANGED vars \/ Environment
  <2>1. \A t \in Sessions : SessionStays(t)
    BY <1>1 DEF vars, inputs, control, reports, Environment, Edit, Create, StatusUpdate, Delete,
                Others, SessionStays, InputsStay
  <2> QED BY <1>0, <2>1, SessionFrame DEF ApplyInv
<1>2. ASSUME NEW s \in Sessions, Proceed(s) \/ Answer(s) \/ AnswerBatch(s)
      PROVE  ApplyInv'
  <2>1. \A t \in Sessions : t # s => SessionInv(t)'
    BY <1>0, <1>2, OwnStep, SessionFrame
  <2>2. SessionInv(s)'
    BY <1>0, <1>2, AnalyzeKeeps, ReviewKeeps, ChecksKeep, MergedKeeps, NextKeeps, BatchMovesKeep
       DEF Proceed
  <2> QED BY <1>0, <2>1, <2>2 DEF ApplyInv
<1> QED
  BY <1>1, <1>2 DEF Next

LEMMA ApplyInvariant == Spec => []ApplyInv
BY ApplyInit, ApplyNext, PTL DEF Spec

-----------------------------------------------------------------------------
\* Whatever the policy file, the suggestions and the other writers, a session in
\* block mode never stores a spec with a critical violation.
THEOREM PolicyHolds == Spec => []PolicyHoldsForPersisted
<1>1. ApplyInv => PolicyHoldsForPersisted
  <2> SUFFICES ASSUME ApplyInv, NEW s \in Sessions, NEW h \in Hpas, opts[s].guard = "block",
                      NEW i \in DOMAIN writes[s][h]
               PROVE  writes[s][h][i].to.spec \notin CriticalSpecs
    BY DEF PolicyHoldsForPersisted
  <2> DEFINE w == writes[s][h]
             K == Selected(s, h)
  <2>1. w \in Seq([base : Objects, to : Objects])
    BY DEF ApplyInv, SafeInv, TypeInv, ClusterType
  <2>2. w # <<>>
    OBVIOUS
  <2>3. /\ Mergeable(plan[s][h], K) /\ K # {} /\ ~PolicyRefuses(s, analysed[s][h].spec, plan[s][h])
        /\ Len(w) = 1 /\ w[1].to.spec = Intended(s, h)
    BY <2>2 DEF ApplyInv, SessionInv, Accounted, WholeOrPartial
  <2>4. i = 1
    <3>1. i \in 1 .. 1
      BY <2>1, <2>3
    <3> QED BY <3>1
  <2>5. Intended(s, h) \notin CriticalSpecs
    BY <2>3 DEF PolicyRefuses, Selected, Intended
  <2> QED BY <2>3, <2>4, <2>5
<1> QED
  BY <1>1, ApplyInvariant, PTL

\* Nobody's HPA is written without --yes or an answered prompt, nor by a
\* dry-run.
THEOREM ConsentHolds == Spec => []ConsentBeforeWrite
<1>1. ApplyInv => ConsentBeforeWrite
  BY DEF ApplyInv, SessionInv, Agreed, ConsentBeforeWrite
<1> QED
  BY <1>1, ApplyInvariant, PTL

\* Without --allow-partial, or with suggestions that merge, an HPA gets all the
\* suggestions let through in one write, or none.
THEOREM WholeWrites == Spec => []AllOrNothing
<1>1. ApplyInv => AllOrNothing
  BY DEF ApplyInv, SessionInv, Accounted, WholeOrPartial, AllOrNothing, Selected
<1> QED
  BY <1>1, ApplyInvariant, PTL

\* Every outcome a session reports agrees with what the server stored for it,
\* lost responses included.
THEOREM ReportsAreTrue == Spec => []ReportMatchesWrites
<1>1. ApplyInv => ReportMatchesWrites
  <2> SUFFICES ASSUME ApplyInv, NEW s \in Sessions, NEW h \in Hpas
               PROVE  LET n == Len(writes[s][h])
                          K == Allowed(s, analysed[s][h].spec, plan[s][h])
                      IN
                      CASE result[s][h] = "none" -> cur[s] # h => n = 0
                        [] result[s][h] = "applied" ->
                             /\ claimed[s][h] = Cardinality(K)
                             /\ n = IF Mergeable(plan[s][h], K) THEN 1 ELSE claimed[s][h]
                        [] result[s][h] = "unknown" -> n <= 1 /\ claimed[s][h] = 0
                        [] result[s][h] = "partial" -> claimed[s][h] <= n /\ n <= claimed[s][h] + 1
                        [] OTHER -> n = 0 /\ claimed[s][h] = 0
    BY DEF ReportMatchesWrites
  <2>1. AccountedFor(s, h)
    BY DEF ApplyInv, SessionInv, Accounted
  <2> QED BY <2>1 DEF AccountedFor, Selected
<1> QED
  BY <1>1, ApplyInvariant, PTL

\* A batch somebody agreed to reports on each of its entries, a refused one on
\* none.
THEOREM BatchIsComplete == Spec => []BatchTriesEveryEntry
<1>1. ApplyInv => BatchTriesEveryEntry
  BY DEF ApplyInv, SessionInv, Batched, BatchTriesEveryEntry, Processing
<1> QED
  BY <1>1, ApplyInvariant, PTL

-----------------------------------------------------------------------------
(* The refinement.  An analysis is the abstract session's look at the cluster,
   the live merged patch its commit, and everything in between a stutter. *)

\* The operators of the two modules are the same.
LEMMA SameOperators ==
  /\ \A spec, p : Atomic!Patched(spec, p) = Patched(spec, p)
  /\ \A ps, K : Atomic!Mergeable(ps, K) <=> Mergeable(ps, K)
  /\ \A ps, K : Atomic!MergePatches(ps, K) = MergePatches(ps, K)
BY DEF Atomic!Patched, Patched, Atomic!Mergeable, Mergeable, Atomic!MergePatches, MergePatches

LEMMA SamePassing ==
  ASSUME TypeInv, NEW s \in Sessions, NEW h \in Hpas
  PROVE  /\ Atomic!Passing(s, h) = Selected(s, h)
         /\ Atomic!Target(s, h) = Intended(s, h)
<1>1. Atomic!Passing(s, h) = Selected(s, h)
  <2>1. Atomic!Passing(s, h) =
          {i \in DOMAIN plan[s][h] :
             \/ opts[s].guard = "off"
             \/ /\ plan[s][h][i] # BadPatch
                /\ Patched(analysed[s][h].spec, plan[s][h][i]) \notin CriticalSpecs}
    BY SameOperators DEF Atomic!Passing
  <2> QED BY <2>1 DEF Selected, Allowed, GuardFix
<1>2. Atomic!Target(s, h) = Intended(s, h)
  BY <1>1, SameOperators DEF Atomic!Target, Intended, Selected
<1> QED
  BY <1>1, <1>2

Committed == [s \in Sessions |-> {h \in Hpas : writes[s][h] # <<>>}]

LEMMA AtomicInitially == Init => Atomic!Init
<1> SUFFICES ASSUME Init PROVE Atomic!Init
  OBVIOUS
<1>1. [s \in Sessions |-> opts[s].guard # "off"] \in [Sessions -> BOOLEAN]
  OBVIOUS
<1>2. [s \in Sessions |-> {h \in Hpas : writes[s][h] # <<>>}] = [s \in Sessions |-> {}]
  BY DEF Init
<1> QED
  BY <1>1, <1>2 DEF Init, Atomic!Init

LEMMA AnalysisIsSeen ==
  ASSUME ApplyInv, NEW s \in Sessions, AnalyzeOne(s) \/ AnalyzeList(s)
  PROVE  Atomic!Next \/ UNCHANGED Atomic!vars
<1>0. TypeInv /\ SessionInv(s)
  BY DEF ApplyInv, SafeInv
<1>1. /\ pc[s] = "idle" /\ UNCHANGED <<hpa, revision, opts, writes>>
  BY DEF AnalyzeOne, AnalyzeList, cluster
<1>2. analysed[s] = [h \in Hpas |-> None] /\ plan[s] = [h \in Hpas |-> <<>>]
  BY <1>0, <1>1 DEF SessionInv, Open
<1>3. CASE UNCHANGED <<analysed, plan>>
  BY <1>1, <1>3 DEF Atomic!vars
<1>4. ASSUME NEW H \in SUBSET {h \in Hpas : hpa[h] # None}, NEW ps \in [H -> PatchLists],
             analysed' = [analysed EXCEPT ![s] = [h \in Hpas |-> IF h \in H THEN hpa[h] ELSE None]],
             plan' = [plan EXCEPT ![s] = [h \in Hpas |-> IF h \in H THEN ps[h] ELSE <<>>]]
      PROVE  Atomic!Next
  <2>1. Atomic!See(s)
    BY <1>1, <1>2, <1>4 DEF Atomic!See
  <2> QED BY <2>1 DEF Atomic!Next
<1>5. CASE AnalyzeOne(s)
  <2>1. SUFFICES ASSUME NEW h \in Hpas, NEW ps \in PatchLists, hpa[h] # None,
                        analysed' = [analysed EXCEPT ![s][h] = hpa[h]],
                        plan' = [plan EXCEPT ![s][h] = ps]
                 PROVE  Atomic!Next
    BY <1>3, <1>5 DEF AnalyzeOne
  <2> DEFINE q == [g \in {h} |-> ps]
  <2>2. q \in [{h} -> PatchLists] /\ {h} \in SUBSET {g \in Hpas : hpa[g] # None}
    BY <2>1
  <2>3. analysed' = [analysed EXCEPT ![s] = [g \in Hpas |-> IF g \in {h} THEN hpa[g] ELSE None]]
    <3>1. [analysed[s] EXCEPT ![h] = hpa[h]] = [g \in Hpas |-> IF g \in {h} THEN hpa[g] ELSE None]
      BY <1>2
    <3> QED BY <2>1, <3>1
  <2>4. plan' = [plan EXCEPT ![s] = [g \in Hpas |-> IF g \in {h} THEN q[g] ELSE <<>>]]
    <3>1. [plan[s] EXCEPT ![h] = ps] = [g \in Hpas |-> IF g \in {h} THEN q[g] ELSE <<>>]
      BY <1>2
    <3> QED BY <2>1, <3>1
  <2> HIDE DEF q
  <2> QED BY <1>4, <2>2, <2>3, <2>4
<1>6. CASE AnalyzeList(s)
  <2>1. PICK ps \in [Hpas -> PatchLists] :
          LET listed == {h \in Hpas : hpa[h] # None /\ ps[h] # <<>>} IN
          /\ analysed' = [analysed EXCEPT ![s] = [h \in Hpas |-> IF h \in listed THEN hpa[h] ELSE None]]
          /\ plan' = [plan EXCEPT ![s] = [h \in Hpas |-> IF h \in listed THEN ps[h] ELSE <<>>]]
    BY <1>6 DEF AnalyzeList
  <2> DEFINE H == {h \in Hpas : hpa[h] # None /\ ps[h] # <<>>}
             q == [h \in H |-> ps[h]]
  <2>2. q \in [H -> PatchLists] /\ H \in SUBSET {g \in Hpas : hpa[g] # None}
    OBVIOUS
  <2>3. [h \in Hpas |-> IF h \in H THEN ps[h] ELSE <<>>] = [h \in Hpas |-> IF h \in H THEN q[h] ELSE <<>>]
    OBVIOUS
  <2>4. /\ analysed' = [analysed EXCEPT ![s] = [h \in Hpas |-> IF h \in H THEN hpa[h] ELSE None]]
        /\ plan' = [plan EXCEPT ![s] = [h \in Hpas |-> IF h \in H THEN q[h] ELSE <<>>]]
    BY <2>1, <2>3
  <2> HIDE DEF H, q
  <2> QED BY <1>4, <2>2, <2>4
<1> QED
  BY <1>5, <1>6

LEMMA PatchIsCommitted ==
  ASSUME ApplyInv, NEW s \in Sessions, PatchMerged(s)
  PROVE  Atomic!Next \/ UNCHANGED Atomic!vars
<1>0. SafeInv /\ TypeInv /\ SessionInv(s)
  BY DEF ApplyInv, SafeInv
<1>h. PICK h \in Hpas : h = cur[s] /\ At(s, h)
  BY <1>0, InHand DEF PatchMerged, Processing
<1> DEFINE p == MergePatches(Plan(s), kept[s])
<1>1. /\ pc[s] = "patchMerged" /\ UNCHANGED <<opts, analysed, plan>>
      /\ UNCHANGED <<hpa, revision, writes>> \/ (AdmitsAt(h, p, reviewed[s]) /\ Persist(s, p))
  BY <1>h DEF PatchMerged, inputs, cluster
<1>2. CASE UNCHANGED <<hpa, revision, writes>>
  BY <1>1, <1>2 DEF Atomic!vars
<1>3. CASE AdmitsAt(h, p, reviewed[s]) /\ Persist(s, p)
  <2>1. writes[s][h] = <<>>
    BY <1>0, <1>1, <1>h, NothingYet
  <2>2. Adds(s, p)
    BY <1>1, <1>3, <1>h DEF Adds, Persist
  <2>3. hpa[h] # None /\ hpa[h] = analysed[s][h] /\ hpa[h] \in Objects
    BY <1>0, <1>3, <2>1, <2>2, <1>h, WriteMeets DEF AdmitsAt, Admits
  <2>4. /\ kept[s] = Selected(s, h) /\ kept[s] # {} /\ Mergeable(plan[s][h], kept[s])
    BY <1>0, <1>1, <1>h DEF SessionInv, Reviewed, Processing
  <2>5. Patched(hpa[h].spec, p) = Intended(s, h) /\ Intended(s, h) \in ValidSpecs
    BY <1>3, <2>3, <2>4, <1>h DEF Intended, Selected, Plan, AdmitsAt, Admits
  <2>6. /\ Atomic!Passing(s, h) # {} /\ Atomic!Mergeable(plan[s][h], Atomic!Passing(s, h))
        /\ Atomic!Target(s, h) = Intended(s, h)
    BY <1>0, <2>4, SamePassing, SameOperators
  <2>7. \/ Intended(s, h) = hpa[h].spec /\ UNCHANGED <<hpa, revision>>
        \/ /\ Intended(s, h) # hpa[h].spec
           /\ hpa' = [hpa EXCEPT ![h] = [uid |-> hpa[h].uid, rv |-> revision + 1, spec |-> Intended(s, h)]]
           /\ revision' = revision + 1
    <3>1. /\ hpa' = [hpa EXCEPT ![h] = Stored(h, p)]
          /\ revision' = IF Stored(h, p) = hpa[h] THEN revision ELSE revision + 1
      BY <1>3, <1>h DEF Persist
    <3>2. CASE Intended(s, h) = hpa[h].spec
      <4>1. Stored(h, p) = hpa[h]
        BY <2>5, <3>2 DEF Stored
      <4> QED BY <1>0, <3>1, <3>2, <4>1 DEF TypeInv, ClusterType
    <3>3. CASE Intended(s, h) # hpa[h].spec
      <4>1. Stored(h, p) = [hpa[h] EXCEPT !.spec = Intended(s, h), !.rv = revision + 1]
        BY <2>5, <3>3 DEF Stored
      <4>2. Stored(h, p) = [uid |-> hpa[h].uid, rv |-> revision + 1, spec |-> Intended(s, h)]
        BY <2>3, <4>1 DEF Objects
      <4>3. Stored(h, p) # hpa[h]
        BY <3>3, <4>2
      <4> QED BY <3>1, <3>3, <4>2, <4>3
    <3> QED BY <3>2, <3>3
  <2>8. /\ Committed' = [Committed EXCEPT ![s] = Committed[s] \cup {h}]
        /\ h \notin Committed[s]
    <3> DEFINE e == [base |-> hpa[h], to |-> Stored(h, p)]
    <3>1. /\ writes \in [Sessions -> [Hpas -> Seq([base : Objects, to : Objects])]]
          /\ writes' = [writes EXCEPT ![s][h] = Append(writes[s][h], e)]
      BY <1>0, <1>3, <1>h DEF Persist, TypeInv, ClusterType
    <3>2. Append(writes[s][h], e) # <<>>
      BY <2>1
    <3> HIDE DEF e
    <3>3. /\ \A t \in Sessions, g \in Hpas : t # s \/ g # h => writes'[t][g] = writes[t][g]
          /\ writes'[s][h] # <<>>
      BY <3>1, <3>2
    <3> QED BY <2>1, <3>3 DEF Committed
  <2>9. Atomic!Commit(s, h)
    BY <1>1, <2>3, <2>5, <2>6, <2>7, <2>8 DEF Atomic!Commit, Committed
  <2> QED BY <2>9 DEF Atomic!Next
<1> QED
  BY <1>1, <1>2, <1>3

LEMMA EnvironmentChanges ==
  ASSUME TypeInv, Environment
  PROVE  Atomic!Next
<1>1. PICK h \in Hpas : \/ \E spec \in ValidSpecs : Edit(h, spec) \/ Create(h, spec)
                        \/ StatusUpdate(h) \/ Delete(h)
  BY DEF Environment
<1>2. UNCHANGED <<opts, analysed, plan, writes>> /\ revision' = revision + 1
  BY <1>1 DEF Edit, Create, StatusUpdate, Delete, Others, inputs
<1> DEFINE Uids == {revision + 1} \cup {o.uid : o \in {hpa[h]} \ {None}}
<1>3. \/ hpa' = [hpa EXCEPT ![h] = None]
      \/ \E spec \in ValidSpecs, uid \in Uids :
           hpa' = [hpa EXCEPT ![h] = [uid |-> uid, rv |-> revision + 1, spec |-> spec]]
  <2>1. hpa[h] # None => hpa[h].uid \in Uids /\ hpa[h].spec \in ValidSpecs
    BY DEF TypeInv, ClusterType, Objects
  <2>2. revision + 1 \in Uids
    OBVIOUS
  <2> HIDE DEF Uids
  <2>3. CASE \E spec \in ValidSpecs : Edit(h, spec) \/ Create(h, spec)
    BY <2>1, <2>2, <2>3 DEF Edit, Create
  <2>4. CASE StatusUpdate(h) \/ Delete(h)
    BY <2>1, <2>4 DEF StatusUpdate, Delete
  <2> QED BY <1>1, <2>3, <2>4
<1>4. Atomic!Change(h)
  BY <1>2, <1>3 DEF Atomic!Change
<1> QED
  BY <1>4 DEF Atomic!Next

LEMMA StepIsAtomic ==
  ASSUME \A o \in Options : ~o.allowPartial
  PROVE  ApplyInv /\ [Next]_vars => [Atomic!Next]_Atomic!vars
<1> SUFFICES ASSUME ApplyInv, [Next]_vars PROVE Atomic!Next \/ UNCHANGED Atomic!vars
  OBVIOUS
<1>0. TypeInv
  BY DEF ApplyInv, SafeInv
<1>1. CASE UNCHANGED vars
  BY <1>1 DEF vars, cluster, inputs, Atomic!vars
<1>2. CASE Environment
  BY <1>0, <1>2, EnvironmentChanges
<1>3. ASSUME NEW s \in Sessions, Proceed(s) \/ Answer(s) \/ AnswerBatch(s)
      PROVE  Atomic!Next \/ UNCHANGED Atomic!vars
  <2>1. CASE AnalyzeOne(s) \/ AnalyzeList(s)
    BY <2>1, AnalysisIsSeen
  <2>2. CASE PatchMerged(s)
    BY <2>2, PatchIsCommitted
  <2>3. ~PatchNext(s)
    <3>1. ~opts[s].allowPartial
      BY <1>0 DEF TypeInv, InputType
    <3> QED BY <3>1 DEF PatchNext, ApplyInv, SessionInv, Reviewed, Processing
  <2>4. CASE ~(AnalyzeOne(s) \/ AnalyzeList(s) \/ PatchMerged(s))
    <3>1. UNCHANGED <<hpa, revision, opts, analysed, plan, writes>>
      BY <1>3, <2>3, <2>4 DEF Proceed, Answer, AnswerBatch, Review, ValidateOne, ValidateMerged,
           Recheck, DryRunMerged, Finish, cluster, inputs
    <3> QED BY <3>1 DEF Atomic!vars
  <2> QED BY <2>1, <2>2, <2>4
<1> QED
  BY <1>1, <1>2, <1>3 DEF Next

\* Without --allow-partial, all the reads, reviews, dry-runs and prompts of any
\* number of sessions amount to one conditional update per session and HPA.
THEOREM ApplyIsAtomic ==
  ASSUME \A o \in Options : ~o.allowPartial
  PROVE  Spec => ImplementsAtomicApply
<1>1. Init => Atomic!Init
  BY AtomicInitially
<1>2. ApplyInv /\ [Next]_vars => [Atomic!Next]_Atomic!vars
  BY StepIsAtomic
<1> QED
  BY <1>1, <1>2, ApplyInvariant, PTL DEF Spec, ImplementsAtomicApply, Atomic!Spec

==============================================================================
