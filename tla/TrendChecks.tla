------------------------------ MODULE TrendChecks ------------------------------
(* Histories that grow: rescale events, health scores, recorded days. *)
EXTENDS RuleSubject, SequencesExt, FiniteSetsExt

CONSTANTS
  Unstable,       \* [down, sizes, gaps, length]: the rules of an HPA and its events
  MinSnapshots, StuckRun, OscillationRun, Grain,
  TrendScores, TrendGaps, MaxSnapshots, GraphWidth,
  DayPatterns,    \* what may be recorded in a day: sequences of [minute, desired, metrics]
  DayGaps, MaxDays,
  SeasonOptions

Stable == INSTANCE Trends
Score100 == INSTANCE HealthTrend
Seas == INSTANCE Seasonality

(* The API server fills in the policies of scaleDown rules that name none, and
   refuses an empty list of them: rules that were read from it have some.      *)
ASSUME TrendAssumption ==
  /\ {MinSnapshots, StuckRun, OscillationRun, Grain} \subseteq Nat \ {0}
  /\ \A u \in Unstable : u.down # Unset => Stable!HasPolicies(u.down)

EventsAsked ==
  /\ Opens("events")
  /\ \E u \in Unstable : subject' = [topic |-> "events", hpa |-> u, events |-> <<>>]
ScoresAsked ==
  /\ Opens("scores")
  /\ subject' = [topic |-> "scores", snapshots |-> <<>>]
RecordingAsked ==
  /\ Opens("recording")
  /\ \E o \in SeasonOptions : subject' = [topic |-> "recording", options |-> o, obs |-> <<>>]

Latest(seq, of(_)) == IF seq = <<>> THEN 0 ELSE Max({of(seq[i]) : i \in DOMAIN seq})

EventSeen ==
  /\ About("events") /\ Len(subject.events) < subject.hpa.length
  /\ \E size \in subject.hpa.sizes, gap \in subject.hpa.gaps :
       subject' = [subject EXCEPT !.events = Append(@,
         [rescaled |-> TRUE, size |-> size, time |-> Latest(@, LAMBDA e : e.time) + gap])]

\* Snapshots arrive late, too.
ScoreSeen ==
  /\ About("scores") /\ Len(subject.snapshots) < MaxSnapshots
  /\ \E score \in TrendScores, gap \in TrendGaps :
       LET time == Latest(subject.snapshots, LAMBDA s : s.time) + gap
       IN  /\ \A i \in DOMAIN subject.snapshots : subject.snapshots[i].time # time
           /\ subject' = [subject EXCEPT !.snapshots = Append(@,
                [time |-> time, score |-> score, state |-> IF score < 50 THEN "ERROR" ELSE "OK"])]

DayRecorded ==
  /\ About("recording") /\ Cardinality(Seas!Days(subject.obs)) < MaxDays
  /\ \E pattern \in DayPatterns, gap \in DayGaps :
       LET day == Latest(subject.obs, LAMBDA ob : ob.day) + gap
       IN  subject' = [subject EXCEPT !.obs = @ \o [i \in DOMAIN pattern |->
             [day |-> day, minute |-> pattern[i].minute, desired |-> pattern[i].desired,
              metrics |-> pattern[i].metrics]]]

TrendNext == EventsAsked \/ ScoresAsked \/ RecordingAsked \/ EventSeen \/ ScoreSeen \/ DayRecorded

------------------------------------------------------------------------------

(* Diagnosis, prevention and churn read the same rescales: they appear together,
   count the same flips, and never advise different next windows.  A longer window
   leaves no more flips, and a later rescale takes none back.  A fix of the diagnosis
   and a patch for churn shorten no window and touch no policies that are there.
   Prevention always weighs 300 and 600 seconds and may advise a window shorter than
   the configured one, but then also a longer one that leaves no more flips.   *)
AdviceKeepsRules(down, patch) ==
  LET new == Stable!MergedRules(down, patch)
  IN  /\ Stable!EffectiveWindow(new) \in Stable!EffectiveWindow(down)..Stable!MaximumWindow
      /\ down # Unset => new.policies = down.policies /\ new.select = down.select

StabilityAgrees(it) ==
  it.topic = "events" =>
    LET down  == it.hpa.down
        r     == Stable!Rescales(it.events)
        flips == Stable!Flips(r)
        diagnosis  == Stable!DiagnoseFlapping(it.events, down)
        prevention == Stable!Prevention(it.events, down)
        churn      == Stable!Churn(it.events, down)
        sure(option) == Stable!PreventionConfidence(option.reduction)
        windows    == 0..5 \cup {60, 300, 400, 450, 600, 900}
        earlier    == {it.events[i].time : i \in 1..Len(it.events) - 1}
        before     == Stable!Flips(Stable!Rescales(SubSeq(it.events, 1, Len(it.events) - 1)))
    IN  /\ diagnosis = {} <=> prevention = {}
        /\ \A d \in diagnosis, p \in prevention : d.flips = p.flips /\ d.flips = flips
        /\ \A p \in prevention : \A o \in p.options :
             /\ p.options # {} => \A best \in Stable!BestOptions(p) : o.left >= best.left
             /\ \A q \in p.options : o.window <= q.window =>
                  o.reduction <= q.reduction /\ (sure(q) = "low" => sure(o) = "low")
             /\ o.window < p.window => \E q \in p.options : q.window > p.window /\ q.left <= o.left
        /\ LET trace(n) == SubSeq(Stable!Sizes(r), 1, n)
               span == Stable!TraceRange(trace(Len(r)))
           IN  /\ span[1] = span[2] <=> Stable!Moves(trace(Len(r))) = <<>>
               /\ Stable!TraceLevel(trace(Len(r))) = "LOW" => flips = 0
               /\ \A d \in diagnosis : Stable!TraceLevel(trace(Len(r))) = "LOW" => d.severity = "LOW"
        /\ \A c \in churn : /\ diagnosis # {} /\ c.flips <= flips /\ c.flips < c.moves
                            /\ c.score \in 0..100 /\ (c.level # "LOW" => c.flips > 0)
                            /\ r[Len(r)].time - r[1].time <= 3600 => c.flips = flips
        /\ r # <<>> => /\ Stable!FlipsUnder(r, 0) = flips
                       /\ \A v, w \in windows : v <= w => Stable!FlipsUnder(r, w) <= Stable!FlipsUnder(r, v)
        /\ it.events # <<>> =>
             (it.events[Len(it.events)].time \notin earlier => flips - before \in {0, 1})
        /\ \A d \in diagnosis : \A f \in Range(d.fixes) : AdviceKeepsRules(down, f)
        /\ \A c \in churn : \A p \in Range(c.patches) : AdviceKeepsRules(down, p)
        /\ \A d \in diagnosis, c \in churn :
             \A f \in Range(d.fixes), p \in Range(c.patches) :
               f.policies = Unset /\ p.policies = Unset => f.window = p.window

(* Anomalies do not depend on the order snapshots arrived in; a plateau, a fall and
   a drift are found for what they are; the graph shows every score above zero, or a
   later one in its place, and marks every anomaly.                             *)
TrendsReadTrue(it) ==
  it.topic = "scores" =>
    LET s == Score100!InTime(it.snapshots)
        n == Len(s)
        scores == Score100!Scores(s)
        found  == Score100!Anomalies(s)
        col(i) == Score100!Column(n, i, GraphWidth)
        band(i) == {top \in Score100!Bands : Score100!InBand(s[i].score, top)}
        plateau(i) == i + StuckRun - 1 <= n /\ \A j \in i..i + StuckRun - 1 : s[j].score = s[i].score
        rate == Score100!DegradationRate(s)
    IN  /\ found = Score100!Anomalies(Score100!InTime(Reverse(it.snapshots)))
        /\ n >= Max({MinSnapshots, StuckRun}) =>
             \A i \in 1..n : plateau(i) =>
               \E a \in found : a.kind = "stuck-state" /\ a.at >= s[i + StuckRun - 1].time
        /\ (\A i \in 1..n - 1 : s[i + 1].score <= s[i].score) => rate <= 0
        /\ (\A i \in 1..n - 1 : s[i + 1].score >= s[i].score) => rate >= 0
        /\ (\E a \in found : a.kind = "sudden-degradation") => Score100!Spread(scores) > 0
        /\ Score100!StateFlapping(s) # "" => n > 4
        /\ \A i \in 1..n : /\ col(i) \in 0..GraphWidth - 1
                           /\ i > 1 => col(i - 1) <= col(i)
                           /\ s[i].score > 0 => \E top \in band(i) : Score100!Cell(s, top, col(i), GraphWidth) \in {"point", "anomaly"}
        /\ \A a \in found : \E i \in Score100!Marked(s) : s[i].time = a.at
        /\ Score100!Marked(s) # {} => found # {}
        /\ LET labels == Score100!Labelled(n, GraphWidth) IN n > 0 => {1, n} \subseteq labels /\ labels \subseteq 1..n
        /\ LET line == Score100!Sparkline(scores, GraphWidth)
           IN  /\ Len(line) = Min({n, GraphWidth})
               /\ n <= GraphWidth => \A i, j \in 1..n : scores[i] <= scores[j] => line[i] <= line[j]

(* A schedule raises the floor exactly its lead time before the peak of each of its
   days, across midnight and the week's end, and releases it at the peak's end; it
   leaves out only weekdays seen twice without the peak; and recording the same days
   once more confirms it.                                                      *)
WeekMinute(day, minute) == (day * Seas!MinutesPerDay + minute) % (7 * Seas!MinutesPerDay)
Fires(cron) == {WeekMinute(d, cron.minute) : d \in cron.days}
SchedulesPrecede(it) ==
  it.topic = "recording" =>
    LET season == Seas!Season(it.obs, it.options)
        o      == Seas!WithDefaults(it.options)
        again  == [i \in DOMAIN it.obs |-> [it.obs[i] EXCEPT !.day = @ + 28]]
        start  == season.run.start * o.bucket
        finish == start + season.run.length * o.bucket
        days   == Seas!Days(it.obs)
        confirmed == Seas!Season(it.obs \o again, it.options)
    IN  season.status \in {"scheduled", "headroom"} =>
          /\ Fires(season.plan.raise) = {WeekMinute(d, start - o.lead) : d \in season.schedule}
          /\ Fires(season.plan.release) = {WeekMinute(d, finish) : d \in season.schedule}
          /\ 2 <= season.matched /\ season.matched <= season.covered /\ season.covered <= Cardinality(days)
          /\ \A wd \in Seas!Weekdays \ season.schedule :
               Cardinality({d \in days : Seas!Weekday(d) = wd}) # 1
          /\ season.plan.floor >= 1
          /\ confirmed.status = season.status /\ confirmed.run = season.run
          /\ confirmed.schedule \subseteq season.schedule /\ confirmed.matched >= season.matched


(* Every reading of a history tells the same story: of the rescale events diagnosis,
   prevention and churn (only prevention may advise a window shorter than the
   configured one), of the scores anomalies and graph in whatever order the snapshots
   arrived, and of the recorded days the schedule that precedes a peak.           *)
HistoriesReadTrue == [][StabilityAgrees(subject') /\ TrendsReadTrue(subject') /\ SchedulesPrecede(subject')]_subject
=============================================================================
