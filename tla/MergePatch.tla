----------------------------- MODULE MergePatch -----------------------------
(* JSON merge patches over the leaf paths of an HPA spec.  A spec gives every
   path a value, a patch gives some paths a value, and BadPatch stands for
   suggestion text that is not a JSON object.  Suggestions of one HPA are a
   sequence of patches; K is the set of positions the caller kept.
   Sources: internal/patch/merge.go, pkg/hpa/policy/policy_patch.go. *)
EXTENDS Naturals, Sequences

CONSTANTS Fields,     \* leaf paths of the spec, e.g. spec.minReplicas
          Values,     \* values a path can take
          BadPatch    \* patch text that does not decode to a JSON object

Specs        == [Fields -> Values]
FieldPatches == UNION {[F -> Values] : F \in SUBSET Fields}
Patches      == FieldPatches \cup {BadPatch}

ASSUME BadPatchAssumption == BadPatch \notin FieldPatches

\* RFC 7396 application: the patch's paths win, every other path is kept.
Patched(spec, p) ==
  [f \in DOMAIN spec |-> IF f \in DOMAIN p THEN p[f] ELSE spec[f]]

\* A single patch is returned as it is, without being parsed, so merging fails
\* only when several patches are kept and one of them does not decode.
Mergeable(ps, K) ==
  (\E i \in K : K = {i}) \/ (\A i \in K : ps[i] # BadPatch)

\* Deep merge with the last value winning on a path set twice.
MergePatches(ps, K) ==
  IF \E i \in K : K = {i}
    THEN ps[CHOOSE i \in K : TRUE]
    ELSE [f \in UNION {DOMAIN ps[i] : i \in K} |->
            LET last == CHOOSE i \in K : /\ f \in DOMAIN ps[i]
                                         /\ \A j \in K : j > i => f \notin DOMAIN ps[j]
            IN  ps[last][f]]

=============================================================================
