------------------------------ MODULE HealthTrend ------------------------------
(* The health scores of one HPA over time: trend, flapping of the state, anomalies
   and the graph.  A snapshot is [time, score, state], time in minutes.  The sizes
   of the anomaly windows are constants so that short histories reach them.    *)
EXTENDS Integers, Sequences, SequencesExt, FiniteSetsExt

CONSTANTS
  MinSnapshots,   \* fewer show no anomaly
  StuckRun,       \* scores in a row that make a plateau
  OscillationRun  \* scores of each of the two compared stretches

\* Ties keep the order they came in.
InTime(snapshots) == SortSeq(snapshots, LAMBDA a, b : a.time < b.time)

Scores(snapshots) == [i \in DOMAIN snapshots |-> snapshots[i].score]
Sum(seq) == FoldLeft(LAMBDA a, b : a + b, 0, seq)
\* Len(seq)^2 times the population variance.
Spread(seq) ==
  Len(seq) * FoldLeft(LAMBDA sum, v : sum + v * v, 0, seq) - Sum(seq) * Sum(seq)

RoundedDiv(a, b) ==
  LET half(n) == (2 * n + b) \div (2 * b) IN IF a >= 0 THEN half(a) ELSE -half(-a)

\* The slope of the regression line in hundredths of a point an hour.
DegradationRate(snapshots) ==
  LET n  == Len(snapshots)
      xs == [i \in 1..n |-> snapshots[i].time - snapshots[1].time]
      xy == Sum([i \in 1..n |-> xs[i] * snapshots[i].score])
      below == Spread(xs)
  IN  IF n < 2 THEN 0
      ELSE IF below = 0 THEN 0
      ELSE RoundedDiv(6000 * (n * xy - Sum(xs) * Sum(Scores(snapshots))), below)

\* "" when the state does not flap.
StateFlapping(snapshots) ==
  LET n == Len(snapshots)
      changes == Cardinality({i \in 2..n : snapshots[i].state # snapshots[i - 1].state})
  IN  IF n < 3 \/ changes < 4 THEN ""
      ELSE IF 10 * changes > 7 * (n - 1) THEN "CRITICAL"
      ELSE IF 10 * changes > 5 * (n - 1) THEN "HIGH" ELSE "MEDIUM"

------------------------------------------------------------------------------
(* Anomalies: [kind, severity, at], at the time of the snapshot that shows it. *)

Degradations(snapshots) ==
  {[kind |-> "sudden-degradation", at |-> snapshots[i].time,
    severity |-> IF snapshots[i - 1].score - snapshots[i].score > 40 THEN "critical" ELSE "warning"] :
     i \in {j \in 2..Len(snapshots) :
              /\ snapshots[j - 1].score - snapshots[j].score > 20
              /\ snapshots[j].time - snapshots[j - 1].time <= 10}}

\* The first snapshots of the runs that stay within two points of their first.
RunStarts(snapshots) ==
  LET apart(i, j) == snapshots[j].score - snapshots[i].score \notin -2..2
      step(runs, j) == IF runs # <<>> /\ ~apart(runs[Len(runs)], j) THEN runs ELSE Append(runs, j)
  IN  FoldLeft(step, <<>>, [i \in DOMAIN snapshots |-> i])
StuckStates(snapshots) ==
  LET starts == RunStarts(snapshots)
      end(k) == IF k = Len(starts) THEN Len(snapshots) ELSE starts[k + 1] - 1
  IN  {[kind |-> "stuck-state", severity |-> "info", at |-> snapshots[end(k)].time] :
         k \in {j \in DOMAIN starts : end(j) - starts[j] + 1 >= StuckRun}}

\* The spread of the last stretch against that of the one before.
Escalation(snapshots) ==
  LET n == Len(snapshots)
      spread(from) == Spread(SubSeq(Scores(snapshots), from + 1, from + OscillationRun))
      before == spread(n - 2 * OscillationRun)
      recent == spread(n - OscillationRun)
  IN  IF n < 2 * OscillationRun THEN {}
      ELSE IF recent > 2 * before
      THEN {[kind |-> "oscillation-escalation", severity |-> "warning", at |-> snapshots[n].time]}
      ELSE {}

Anomalies(snapshots) ==
  IF Len(snapshots) < MinSnapshots THEN {}
  ELSE Degradations(snapshots) \cup Escalation(snapshots)
       \cup (IF Len(snapshots) < StuckRun THEN {} ELSE StuckStates(snapshots))

------------------------------------------------------------------------------
(* The graph: five bands of twenty points, one column per snapshot. *)

Column(n, i, width) ==
  IF n = 1 THEN width \div 2 ELSE Min({RoundedDiv((i - 1) * width, n - 1), width - 1})

Bands == {20, 40, 60, 80, 100}
InBand(score, top) == top - 20 < score /\ score <= top

\* Snapshots within a minute of an anomaly, and their neighbours.
Marked(snapshots) ==
  LET near(i) == \E a \in Anomalies(snapshots) : snapshots[i].time - a.at \in -1..1
  IN  {i \in DOMAIN snapshots : \E j \in {i - 1, i, i + 1} \cap DOMAIN snapshots : near(j)}

\* What a cell shows: the last snapshot drawn there, a line between neighbours in
\* one band, or nothing.
Cell(snapshots, top, column, width) ==
  LET n   == Len(snapshots)
      col(i) == Column(n, i, width)
      drawn == {i \in DOMAIN snapshots : InBand(snapshots[i].score, top) /\ col(i) = column}
      joined == \E i \in 1..n - 1 : /\ InBand(snapshots[i].score, top) /\ InBand(snapshots[i + 1].score, top)
                                    /\ col(i) < column /\ column < col(i + 1)
  IN  IF drawn # {} THEN IF Max(drawn) \in Marked(snapshots) THEN "anomaly" ELSE "point"
      ELSE IF joined THEN "line" ELSE "blank"

\* Which snapshots carry a time label.
Labelled(n, width) ==
  LET count == Max({2, Min({6, width \div 12})})
  IN  IF n <= count THEN 1..n ELSE {1 + (i * (n - 1)) \div (count - 1) : i \in 0..count - 1}

\* The level, 0 to 7, of each character of the sparkline.
Sparkline(scores, width) ==
  LET n == Len(scores)
      top == IF n = 0 \/ Max(Range(scores)) = 0 THEN 100 ELSE Max(Range(scores))
      shown == IF n <= width THEN scores ELSE [i \in 1..width |-> scores[1 + ((i - 1) * n) \div width]]
  IN  IF n = 0 \/ width <= 0 THEN <<>>
      ELSE [i \in DOMAIN shown |-> Max({0, Min({7, (7 * shown[i]) \div top})})]
=============================================================================
