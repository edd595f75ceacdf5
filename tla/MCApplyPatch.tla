---------------------------- MODULE MCApplyPatch ----------------------------
(* Small instances of ApplyPatch.  A spec has minReplicas and maxReplicas; the
   combined effect of raising both is critical although each alone is not. *)
EXTENDS ApplyPatch, TLC

MCFields   == {"min", "max"}
MCValues   == 1 .. 3
Sp(lo, hi) == [min |-> lo, max |-> hi]

MCValidSpecs    == {Sp(1, 2), Sp(2, 2), Sp(1, 3), Sp(2, 3)}
MCCriticalSpecs == {Sp(2, 3)}

RaiseMin == [min |-> 2]
RaiseMax == [max |-> 3]
LowerMin == [min |-> 1]

GuardedLists == {<<RaiseMin, RaiseMax>>, <<RaiseMin, RaiseMax, LowerMin>>}
MixedLists   == {<<>>, <<RaiseMin>>, <<RaiseMax, RaiseMin, BadPatch>>, <<RaiseMin, RaiseMax>>}

Flags(kind, dryRun, yes, partial, guard) ==
  [kind |-> kind, dryRun |-> dryRun, yes |-> yes, allowPartial |-> partial, guard |-> guard]

GuardedOptions ==
  {Flags("status", FALSE, TRUE, FALSE, "warn")}
    \cup {Flags("status", d, FALSE, FALSE, "block") : d \in BOOLEAN}
MixedOptions ==
  {Flags("list", FALSE, FALSE, FALSE, "off"), Flags("status", FALSE, TRUE, TRUE, "warn")}
    \cup {Flags("exec", FALSE, TRUE, p, "off") : p \in BOOLEAN}

Interchangeable == Permutations(Sessions)

=============================================================================
