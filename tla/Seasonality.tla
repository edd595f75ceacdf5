------------------------------ MODULE Seasonality ------------------------------
(* Recurring ramps in a recording, and the schedule that raises the floor ahead of
   them.  An observation is [day, minute, desired, metrics]: a local calendar day
   numbered so that day % 7 is its weekday (0 is Sunday), minutes from midnight, and
   a function from metric names, ordered numbers, to values.  Averages and medians
   are counted in grains: Grain is a common multiple of their denominators, and one
   grain stands for the next larger float64.                                   *)
EXTENDS Integers, Sequences, SequencesExt, FiniteSetsExt

CONSTANT Grain

MinutesPerDay == 1440
Weekdays == 0..6
Weekday(day) == day % 7

\* Unset or invalid options fall back to their defaults.
WithDefaults(o) ==
  [o EXCEPT !.bucket  = IF @ \in 1..MinutesPerDay /\ MinutesPerDay % @ = 0 THEN @ ELSE 30,
            !.minDays = IF @ < 2 THEN 2 ELSE @,
            !.lead    = IF @ <= 0 THEN 15 ELSE @,
            !.ratio   = IF @ <= 100 THEN 150 ELSE @]

Buckets(o) == 0..(MinutesPerDay \div o.bucket) - 1

Ordered(S) == [k \in 1..Cardinality(S) |-> CHOOSE x \in S : Cardinality({y \in S : y < x}) = k - 1]

\* The middle value, or the middle two over 2.
Median(seq) ==
  LET n == Len(seq)
      sorted == SortSeq(seq, <)
  IN  IF n = 0 THEN <<0, 1>>
      ELSE IF n % 2 = 1 THEN <<sorted[(n + 1) \div 2], 1>>
      ELSE <<sorted[n \div 2] + sorted[n \div 2 + 1], 2>>
CeilMedian(seq) == LET m == Median(seq) IN (m[1] + m[2] - 1) \div m[2]

------------------------------------------------------------------------------
(* Signal and profile. *)

\* The metric that is profiled, 0 for replicas, -1 when the metric that was asked
\* for is missing.
SelectSignal(obs, want) ==
  LET names  == UNION {DOMAIN obs[i].metrics : i \in DOMAIN obs}
      cover(n) == Cardinality({i \in DOMAIN obs : n \in DOMAIN obs[i].metrics})
      enough == {n \in names : want = "metric" \/ cover(n) > Len(obs) \div 2}
      best   == {n \in enough : \A m \in enough : cover(m) < cover(n) \/ (cover(m) = cover(n) /\ n <= m)}
  IN  IF want = "replicas" THEN 0
      ELSE IF best # {} THEN Min(best)
      ELSE IF want = "metric" THEN -1 ELSE 0

Days(obs) == {ob.day : ob \in Range(obs)}
InBucket(obs, o, day, b) == {ob \in Range(obs) : ob.day = day /\ ob.minute \div o.bucket = b}

\* The largest reading of a bucket of a day, -1 where there is none.
DayDesired(obs, o, day, b) == Max({-1} \cup {ob.desired : ob \in InBucket(obs, o, day, b)})
DaySignal(obs, o, metric, day, b) ==
  IF metric = 0 THEN DayDesired(obs, o, day, b)
  ELSE Max({-1} \cup {ob.metrics[metric] : ob \in {x \in InBucket(obs, o, day, b) : metric \in DOMAIN x.metrics}})

\* The average of the days that have the bucket, -1 where none has.
SignalProfile(obs, o, metric) ==
  LET of(d, b) == DaySignal(obs, o, metric, d, b)
      seen(b)  == {d \in Days(obs) : of(d, b) >= 0}
      sum(b)   == FoldSet(LAMBDA d, total : total + of(d, b), 0, seen(b))
  IN  [b \in Buckets(o) |-> IF seen(b) = {} THEN -1 ELSE (Grain * sum(b)) \div Cardinality(seen(b))]
DesiredProfile(obs, o) == SignalProfile(obs, o, 0)

BaselineOf(profile) ==
  LET m == Median(SelectSeq([i \in 1..Cardinality(DOMAIN profile) |-> profile[i - 1]], LAMBDA v : v >= 0))
  IN  m[1] \div m[2]
ThresholdOf(baseline, o, metric) ==
  Max({(baseline * o.ratio) \div 100, baseline + (IF metric = 0 THEN Grain ELSE 1)})

------------------------------------------------------------------------------
(* The peak: the run of buckets, around midnight if need be, with most excess. *)

PeakRun(profile, threshold) ==
  LET n == Cardinality(DOMAIN profile)
      above(b) == profile[b % n] >= threshold /\ profile[b % n] >= 0
      starts == {b \in 0..n - 1 : above(b) /\ ~above(b + n - 1)}
      length(b) == Max({k \in 1..n : \A i \in 0..k - 1 : above(b + i)})
      excess(b) == FoldSet(LAMBDA i, sum : sum + profile[(b + i) % n] - threshold, 0, 0..length(b) - 1)
      ahead(a, b) == \/ excess(a) > excess(b)
                     \/ excess(a) = excess(b) /\ length(a) > length(b)
                     \/ excess(a) = excess(b) /\ length(a) = length(b) /\ a <= b
  IN  {[start |-> b, length |-> length(b)] : b \in {s \in starts : \A other \in starts : ahead(s, other)}}

\* Buckets past midnight are those of the next calendar day, if it was recorded.
RunCells(obs, o, day, run) ==
  LET n == Cardinality(Buckets(o))
  IN  {<<day + (run.start + i) \div n, (run.start + i) % n>> : i \in 0..run.length - 1}
        \cap (Days(obs) \X Buckets(o))

DayMaxima(obs, o, metric, day, run) ==
  LET cells == RunCells(obs, o, day, run)
  IN  [desired |-> Max({-1} \cup {DayDesired(obs, o, c[1], c[2]) : c \in cells}),
       signal  |-> Max({-1} \cup {DaySignal(obs, o, metric, c[1], c[2]) : c \in cells})]

CoveredDays(obs, o, metric, run) ==
  {d \in Days(obs) : LET m == DayMaxima(obs, o, metric, d, run) IN m.desired >= 0 \/ m.signal >= 0}
MatchedDays(obs, o, metric, run, threshold) ==
  {d \in Days(obs) : LET m == DayMaxima(obs, o, metric, d, run)
                     IN  m.signal >= 0 /\ Grain * m.signal >= threshold}

\* The weekdays of the schedule: narrowed only when each weekday was seen twice and
\* showed the peak always or never.
Schedule(days, matched) ==
  LET of(wd) == {d \in days : Weekday(d) = wd}
      seen   == {Weekday(d) : d \in days}
      always == {wd \in seen : of(wd) \subseteq matched}
      never  == {wd \in seen : of(wd) \cap matched = {}}
  IN  IF /\ \A wd \in seen : Cardinality(of(wd)) >= 2
         /\ seen = always \cup never
         /\ always # {} /\ never # {}
      THEN always ELSE Weekdays

------------------------------------------------------------------------------
(* The analysis. *)

FloorDiv(a, b) == a \div b
Shifted(days, by) == {(d + by) % 7 : d \in days}
Cron(minute, days) == [minute |-> minute % MinutesPerDay, days |-> days]

PeakLevels(obs, o, metric, run, matched) ==
  LET days   == Ordered(matched)
      maxima == SelectSeq([i \in DOMAIN days |-> DayMaxima(obs, o, metric, days[i], run).desired], LAMBDA v : v >= 0)
      onsets == SelectSeq([i \in DOMAIN days |-> DayDesired(obs, o, days[i], run.start)], LAMBDA v : v >= 0)
  IN  [peak  |-> CeilMedian(maxima),
       onset |-> IF CeilMedian(onsets) <= 0 THEN CeilMedian(maxima) ELSE CeilMedian(onsets)]

\* Mutant: a floor that rises before midnight keeps the day of the peak.
RecommendedSameDay(o, run, schedule, onset) ==
  LET n    == Cardinality(Buckets(o))
      ends == IF run.start + run.length >= n THEN Shifted(schedule, 1) ELSE schedule
  IN  [floor   |-> onset,
       raise   |-> Cron(run.start * o.bucket - o.lead, schedule),
       release |-> Cron(((run.start + run.length) % n) * o.bucket, ends)]

\* When the floor rises and when it falls back.
Recommended(o, run, schedule, onset) ==
  LET start    == run.start * o.bucket
      prescale == start - o.lead
      n        == Cardinality(Buckets(o))
      ends     == IF run.start + run.length >= n THEN Shifted(schedule, 1) ELSE schedule
  IN  [floor   |-> onset,
       raise   |-> Cron(prescale, Shifted(schedule, FloorDiv(prescale, MinutesPerDay))),
       release |-> Cron(((run.start + run.length) % n) * o.bucket, ends)]

ConfidenceLabel(matched, covered) ==
  IF 5 * matched >= 4 * covered THEN "high" ELSE IF 2 * matched >= covered THEN "medium" ELSE "low"

Verdict(status) == [status |-> status]
Season(obs, options) ==
  LET o         == WithDefaults(options)
      metric    == SelectSignal(obs, o.signal)
      profile   == SignalProfile(obs, o, metric)
      threshold == ThresholdOf(BaselineOf(profile), o, metric)
      run       == CHOOSE r \in PeakRun(profile, threshold) : TRUE
      matched   == MatchedDays(obs, o, metric, run, threshold)
      schedule  == Schedule(Days(obs), matched)
      counted   == {d \in CoveredDays(obs, o, metric, run) : Weekday(d) \in schedule}
      hits      == Cardinality(counted \cap matched)
      levels    == PeakLevels(obs, o, metric, run, matched)
      found(status) == [status |-> status, run |-> run, schedule |-> schedule, matched |-> hits,
                        covered |-> Cardinality(counted), levels |-> levels,
                        plan |-> Recommended(o, run, schedule, levels.onset),
                        confidence |-> ConfidenceLabel(hits, Cardinality(counted))]
  IN  CASE metric = -1 -> Verdict("unusable")
        [] metric # -1 /\ Cardinality(Days(obs)) < o.minDays -> Verdict("insufficient")
        [] metric # -1 /\ Cardinality(Days(obs)) >= o.minDays ->
             IF PeakRun(profile, threshold) = {} THEN Verdict("flat")
             ELSE IF hits < 2 \/ 2 * hits < Cardinality(counted) THEN Verdict("incidental")
             ELSE IF metric > 0 /\ Grain * levels.peak <= BaselineOf(DesiredProfile(obs, o)) THEN found("headroom")
             ELSE found("scheduled")
=============================================================================
