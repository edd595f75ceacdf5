---------------------------- MODULE AtomicApply -----------------------------
(* The promise of an apply, without the way it is kept: a session sees an HPA,
   derives suggestions from it and may replace that very object, in one step
   and once, by the object with all its (guarded) suggestions. *)
EXTENDS MergePatch

CONSTANTS Sessions, Hpas, ValidSpecs, CriticalSpecs, PatchLists, None

VARIABLES
  hpa,          \* each HPA's object, or None
  revision,     \* last resourceVersion given
  seen,         \* the object a session derived its suggestions from
  suggestions,  \* those suggestions
  guarded,      \* does the session have a policy file?
  committed     \* HPAs the session has updated

vars == <<hpa, revision, seen, suggestions, guarded, committed>>

\* Suggestions that may take part: with a policy, those without critical effect.
Passing(s, h) ==
  {i \in DOMAIN suggestions[s][h] :
     ~guarded[s] \/ /\ suggestions[s][h][i] # BadPatch
                    /\ Patched(seen[s][h].spec, suggestions[s][h][i]) \notin CriticalSpecs}

Target(s, h) == Patched(seen[s][h].spec, MergePatches(suggestions[s][h], Passing(s, h)))

Init ==
  /\ hpa \in [Hpas -> {[uid |-> 0, rv |-> 0, spec |-> sp] : sp \in ValidSpecs}]
  /\ revision = 0
  /\ seen = [s \in Sessions |-> [h \in Hpas |-> None]]
  /\ suggestions = [s \in Sessions |-> [h \in Hpas |-> <<>>]]
  /\ guarded \in [Sessions -> BOOLEAN]
  /\ committed = [s \in Sessions |-> {}]

\* A session looks at some of the HPAs, once.
See(s) ==
  /\ seen[s] = [h \in Hpas |-> None]
  /\ \E H \in SUBSET {h \in Hpas : hpa[h] # None} :
       /\ seen' = [seen EXCEPT ![s] = [h \in Hpas |-> IF h \in H THEN hpa[h] ELSE None]]
       /\ \E ps \in [H -> PatchLists] :
            suggestions' = [suggestions EXCEPT ![s] =
                              [h \in Hpas |-> IF h \in H THEN ps[h] ELSE <<>>]]
  /\ UNCHANGED <<hpa, revision, guarded, committed>>

\* The conditional update: only on the object seen, and only as a whole.
Commit(s, h) ==
  /\ h \notin committed[s]
  /\ hpa[h] # None /\ hpa[h] = seen[s][h]
  /\ Passing(s, h) # {} /\ Mergeable(suggestions[s][h], Passing(s, h))
  /\ Target(s, h) \in ValidSpecs
  /\ \/ /\ Target(s, h) = hpa[h].spec
        /\ UNCHANGED <<hpa, revision>>
     \/ /\ Target(s, h) # hpa[h].spec
        /\ hpa' = [hpa EXCEPT ![h] = [uid |-> @.uid, rv |-> revision + 1, spec |-> Target(s, h)]]
        /\ revision' = revision + 1
  /\ committed' = [committed EXCEPT ![s] = @ \cup {h}]
  /\ UNCHANGED <<seen, suggestions, guarded>>

\* Everybody else: any change of one HPA gets a version of its own.
Change(h) ==
  /\ revision' = revision + 1
  /\ \/ hpa' = [hpa EXCEPT ![h] = None]
     \/ \E spec \in ValidSpecs, uid \in {revision + 1} \cup {o.uid : o \in {hpa[h]} \ {None}} :
          hpa' = [hpa EXCEPT ![h] = [uid |-> uid, rv |-> revision + 1, spec |-> spec]]
  /\ UNCHANGED <<seen, suggestions, guarded, committed>>

Next ==
  \/ \E s \in Sessions : See(s) \/ \E h \in Hpas : Commit(s, h)
  \/ \E h \in Hpas : Change(h)

Spec == Init /\ [][Next]_vars

=============================================================================
