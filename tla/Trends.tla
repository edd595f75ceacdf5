-------------------------------- MODULE Trends --------------------------------
(* What the rescale events of an HPA say of its stability: flapping, the effect of a
   longer stabilization window, churn.  An event is [rescaled, size, time], size
   Unset when the message names none; down is the HPA's scaleDown rules, or Unset. *)
EXTENDS Integers, Sequences, SequencesExt, FiniteSetsExt

CONSTANT Unset

DefaultWindow == 300
MaximumWindow == 3600

EffectiveWindow(down) ==
  IF down = Unset THEN DefaultWindow ELSE IF down.window = Unset THEN DefaultWindow ELSE down.window

\* The shared ladder of windows; 0 where it ends.
NextWindow(window) ==
  IF window >= MaximumWindow THEN 0
  ELSE IF window <= 0 THEN DefaultWindow ELSE Min({2 * window, MaximumWindow})

HasPolicies(down) ==
  /\ down # Unset
  /\ down.policies # Unset
  /\ down.policies # <<>>

------------------------------------------------------------------------------
(* Rescales in time order; two sizes at one moment say nothing. *)

Rescales(events) ==
  LET ordered == SortSeq(SelectSeq(events, LAMBDA e : e.rescaled /\ e.size # Unset), LAMBDA a, b : a.time < b.time)
      sizes(t) == {e.size : e \in {x \in Range(ordered) : x.time = t}}
      first(i) == i = 1 \/ ordered[i - 1].time # ordered[i].time
      clear(i) == Cardinality(sizes(ordered[i].time)) = 1
      kept == SelectSeq([i \in DOMAIN ordered |-> i], LAMBDA i : first(i) /\ clear(i))
  IN  [k \in DOMAIN kept |-> [time |-> ordered[kept[k]].time, size |-> ordered[kept[k]].size]]

Direction(from, to) == IF to > from THEN 1 ELSE IF to < from THEN -1 ELSE 0

Moves(sizes) == SelectSeq([i \in DOMAIN sizes |-> i], LAMBDA i : i > 1 /\ sizes[i] # sizes[Max({i - 1, 1})])
\* The moves whose direction is not that of the move before.
FlipPoints(sizes) ==
  LET moves == Moves(sizes)
      dir(k) == Direction(sizes[moves[k] - 1], sizes[moves[k]])
  IN  {moves[k] : k \in {j \in 2..Len(moves) : dir(j) # dir(j - 1)}}
Sizes(rescales) == [i \in DOMAIN rescales |-> rescales[i].size]
Flips(rescales) == Cardinality(FlipPoints(Sizes(rescales)))

------------------------------------------------------------------------------
(* Diagnosis: severity, causes and a fix per cause. *)

FlipSpan(rescales) ==
  LET points == FlipPoints(Sizes(rescales))
  IN  IF Cardinality(points) < 2 THEN 0 ELSE rescales[Max(points)].time - rescales[Min(points)].time

FlappingSeverity(flips, span) ==
  CASE flips >= 6 \/ (flips >= 3 /\ 0 < span /\ span < DefaultWindow)     -> "CRITICAL"
    [] flips >= 3 \/ (flips >= 2 /\ 0 < span /\ span < 2 * DefaultWindow) -> "HIGH"
    [] flips >= 2 -> "MEDIUM"
    [] OTHER -> "LOW"

TightTarget(rescales) ==
  Cardinality({i \in 2..Len(rescales) : rescales[i].size - rescales[i - 1].size \in -2..2})
    > (Len(rescales) - 1) \div 2

FlappingCauses(rescales, down) ==
  {c \in {"tight-target", "short-stabilization-window", "missing-scaledown-policy"} :
     CASE c = "tight-target" -> TightTarget(rescales)
       [] c = "short-stabilization-window" -> EffectiveWindow(down) < DefaultWindow
       [] c = "missing-scaledown-policy" -> ~HasPolicies(down)}

HalfPerMinute == <<[type |-> "Percent", value |-> 50, period |-> 60]>>

\* What a patch sets; a field it leaves alone is Unset.
WindowPatch(window) == [select |-> Unset, policies |-> Unset, window |-> window]
FlappingFixes(causes, down) ==
  LET window == EffectiveWindow(down)
  IN  (IF "short-stabilization-window" \in causes /\ NextWindow(window) # 0
       THEN <<WindowPatch(NextWindow(window))>> ELSE <<>>)
  \o (IF "missing-scaledown-policy" \in causes
      THEN <<[select |-> "Max", policies |-> HalfPerMinute, window |-> window]>> ELSE <<>>)

\* The diagnosis, or {} with fewer than three rescales.
DiagnoseFlapping(events, down) ==
  LET rescales == Rescales(events)
      causes   == FlappingCauses(rescales, down)
      flips    == Flips(rescales)
  IN  IF Len(rescales) < 3 THEN {}
      ELSE IF flips = 0 THEN {[flips |-> 0, severity |-> "LOW", causes |-> {}, fixes |-> <<>>]}
      ELSE {[flips |-> flips, severity |-> FlappingSeverity(flips, FlipSpan(rescales)), causes |-> causes,
             fixes |-> FlappingFixes(causes, down)]}

------------------------------------------------------------------------------
(* Prevention: the flips a window would have left. *)

FlipsUnder(rescales, window) ==
  LET sizes == Sizes(rescales)
      since(i) == LET earlier == {j \in Range(Moves(sizes)) : j < i}
                  IN  IF earlier = {} THEN 1 ELSE Max(earlier)
  IN  Cardinality({i \in FlipPoints(sizes) : rescales[i].time - rescales[since(i)].time >= window})

CandidateWindows(window) ==
  {(3 * window) \div 2, 2 * window, 3 * window, DefaultWindow, 2 * DefaultWindow} \ {window}

\* The windows worth recommending with the flips they leave, in no order.
Prevention(events, down) ==
  LET rescales == Rescales(events)
      flips == Flips(rescales)
      left(w) == FlipsUnder(rescales, w)
  IN  IF Len(rescales) < 3 THEN {}
      ELSE {[flips |-> flips, window |-> EffectiveWindow(down),
             options |-> {[window |-> w, left |-> left(w), reduction |-> (100 * (flips - left(w))) \div flips] :
                            w \in {c \in CandidateWindows(EffectiveWindow(down)) : left(c) < flips}}]}

PreventionConfidence(reduction) ==
  IF reduction >= 75 THEN "high" ELSE IF reduction >= 40 THEN "medium" ELSE "low"

\* The recommendations in the report's order: one of those with the largest
\* reduction is first.
BestOptions(p) == {o \in p.options : \A other \in p.options : other.reduction <= o.reduction}

------------------------------------------------------------------------------
(* The recorded trace of one HPA's desired replicas. *)

TraceLevel(desired) ==
  LET flips == Cardinality(FlipPoints(desired))
      changes == Len(Moves(desired))
  IN  CASE flips >= 6 \/ changes >= 15 -> "CRITICAL"
        [] flips >= 3 \/ changes >= 8  -> "HIGH"
        [] flips > 0 \/ changes >= 4   -> "MEDIUM"
        [] OTHER -> "LOW"
TraceRange(desired) ==
  IF desired = <<>> THEN <<0, 0>> ELSE <<Min(Range(desired)), Max(Range(desired))>>

------------------------------------------------------------------------------
(* Churn of the latest stretch without an hour's gap. *)

LatestSegment(rescales) ==
  LET starts == {i \in DOMAIN rescales :
                   \A j \in i + 1..Len(rescales) : rescales[j].time - rescales[j - 1].time <= 3600}
  IN  SubSeq(rescales, Min(starts \cup {Len(rescales) + 1}), Len(rescales))

\* Fifteen per flip and forty times the share of flips, less below four moves an
\* hour; rounded to the nearest.
ChurnScore(flips, moves, span) ==
  LET base == flips * (15 * moves + 40)
  IN  Min({100, IF span <= 0 \/ moves * 900 >= span
                THEN (2 * base + moves) \div (2 * moves)
                ELSE (2 * base * 900 + span) \div (2 * span)})
ChurnLevel(score) ==
  IF score <= 25 THEN "LOW" ELSE IF score <= 50 THEN "MEDIUM" ELSE IF score <= 75 THEN "HIGH" ELSE "CRITICAL"

\* The window first; a policy only where none is configured.
ChurnPatches(level, down) ==
  LET window == NextWindow(EffectiveWindow(down))
      disabled == down # Unset /\ down.select = "Disabled"
  IN  IF level = "LOW" THEN <<>>
      ELSE (IF window = 0 THEN <<>> ELSE <<WindowPatch(window)>>)
        \o (IF level \in {"HIGH", "CRITICAL"} /\ ~disabled /\ ~HasPolicies(down)
            THEN <<[select |-> Unset, policies |-> HalfPerMinute, window |-> Unset]>> ELSE <<>>)

Churn(events, down) ==
  LET all   == Rescales(events)
      r     == LatestSegment(all)
      moves == Len(Moves(Sizes(r)))
      score == ChurnScore(Flips(r), moves, r[Len(r)].time - r[1].time)
  IN  IF Len(all) < 3 \/ Len(r) < 3 THEN {}
      ELSE IF moves = 0 THEN {}
      ELSE {[score |-> score, level |-> ChurnLevel(score), flips |-> Flips(r), moves |-> moves,
             ups |-> Cardinality({i \in 2..Len(r) : r[i].size > r[i - 1].size}),
             largest |-> Max({Max({r[i].size - r[i - 1].size, r[i - 1].size - r[i].size}) : i \in 2..Len(r)}),
             patches |-> ChurnPatches(ChurnLevel(score), down)]}

\* A merge patch on the scaleDown rules: what it leaves Unset stays.
MergedRules(down, patch) ==
  LET kept(f) == IF patch[f] # Unset THEN patch[f] ELSE IF down = Unset THEN Unset ELSE down[f]
  IN  [f \in {"select", "policies", "window"} |-> kept(f)]
=============================================================================
