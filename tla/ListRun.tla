------------------------------ MODULE ListRun ------------------------------
(***************************************************************************)
(* One run of `list` (src/cmd/list.go): the HPAs of a namespace or of the  *)
(* cluster are read page by page.  Where no option needs the whole set the *)
(* rows of a page are printed as it arrives; otherwise the pages are kept, *)
(* and the rows filtered, sorted and printed when the walk is over.        *)
(***************************************************************************)
EXTENDS Integers, Sequences, FiniteSets, SequencesExt, KubeRead

CONSTANTS
  ServerPages,  \* the pages the server holds: a sequence of sequences of HPAs
  Queries,      \* the options a user may give
  MaxListFaults \* bound: how many answers other than the next page there are

(***************************************************************************)
(* An HPA as a list row: [name, score, health, diff, order], where `order` *)
(* ranks "namespace/name", the order the server lists in.                  *)
(*                                                                         *)
(* A query is [sortBy, problem, filter, min, max, trend, apply, whole]:    *)
(* `whole` stands for every option that needs the complete set by itself   *)
(* (--export directory, --gitops-drift, --report, KEDA or VPA, an output   *)
(* format with an enclosing document).  A score bound is -1 when not given.*)
(* There is a page even where there is no HPA.                             *)
(***************************************************************************)
ListRows == [name : Nat, score : Nat, health : STRING, diff : Nat, order : Nat]

ASSUME ListAssumption ==
  /\ MaxListFaults \in Nat
  /\ ServerPages \in Seq(Seq(ListRows)) /\ ServerPages # <<>>

VARIABLES
  query,
  walk,         \* [phase, page, tries, followed]: where the walk over pages is
  kept,         \* the HPAs accumulated so far
  rows,         \* the rows printed
  trended,      \* the HPAs whose health was recorded, in order
  listExit,     \* NoExit while it runs, then the exit code
  listFaults

listVars == <<query, walk, kept, rows, trended, listExit, listFaults>>

-----------------------------------------------------------------------------
CanStream(q) == q.sortBy = "" /\ ~q.apply /\ ~q.trend /\ ~q.whole

\* --problem alone filters on the issue.
EffectiveFilter(q) == IF q.problem /\ q.filter = "" THEN "issue" ELSE q.filter

MatchesFilter(hpa, filter) ==
  CASE filter \in {"", "all"} -> TRUE
    [] filter = "issue" -> hpa.health # "OK"
    [] OTHER -> hpa.health = filter

AtMost(a, b) == IF a > b THEN b ELSE a

MatchesRange(hpa, min, max) ==
  /\ min >= 0 => hpa.score >= AtMost(min, 100)
  /\ max >= 0 => hpa.score <= AtMost(max, 100)

IsListed(q, hpa) == MatchesFilter(hpa, EffectiveFilter(q)) /\ MatchesRange(hpa, q.min, q.max)

Listed(q, hpas) ==
  FlattenSeq([k \in DOMAIN hpas |-> IF IsListed(q, hpas[k]) THEN <<hpas[k]>> ELSE <<>>])

(***************************************************************************)
(* --apply wants a bounded set: never "all", and some filter or score.     *)
(***************************************************************************)
ApplyIsBounded(q) ==
  /\ EffectiveFilter(q) # "all"
  /\ q.problem \/ EffectiveFilter(q) # "" \/ q.min > 0 \/ q.max >= 0

SortKey(q) == IF q.sortBy # "" THEN q.sortBy ELSE IF q.problem THEN "problem" ELSE "name"

ProblemBefore(a, b) ==
  \/ a.score < b.score
  \/ a.score = b.score /\ a.diff > b.diff
  \/ a.score = b.score /\ a.diff = b.diff /\ a.order < b.order

Before(key, a, b) ==
  CASE key = "name" -> a.name < b.name
    [] key = "problem" -> ProblemBefore(a, b)
    [] key = "healthscore" -> a.score > b.score
    [] key = "diff" -> a.diff > b.diff
    [] OTHER -> a.order < b.order

(***************************************************************************)
(* A stable sort: rows of equal key stay in the order of the walk.         *)
(***************************************************************************)
Sorted(q, hpas) ==
  LET key == SortKey(q)
      rank(k) == Cardinality({j \in DOMAIN hpas :
                   \/ Before(key, hpas[j], hpas[k])
                   \/ j < k /\ ~Before(key, hpas[k], hpas[j])})
  IN  [n \in DOMAIN hpas |-> hpas[CHOOSE k \in DOMAIN hpas : rank(k) = n - 1]]

-----------------------------------------------------------------------------
ListInit ==
  /\ query \in Queries
  /\ walk = [phase |-> "calling", page |-> 1, tries |-> 1, followed |-> {}]
  /\ kept = <<>> /\ rows = <<>> /\ trended = <<>>
  /\ listExit = NoExit
  /\ listFaults = 0

\* The walk ends with an error: what was streamed stays printed, the rest is dropped.
ListError ==
  /\ walk' = [walk EXCEPT !.phase = "over"]
  /\ kept' = <<>>
  /\ listExit' = 1

(***************************************************************************)
(* A page arrives and the server names the page that follows: the right    *)
(* one, or, misbehaving, one the walk has followed already.                *)
(***************************************************************************)
PageArrives(next) ==
  /\ walk.phase = "calling"
  /\ \/ next = walk.page + 1 /\ UNCHANGED listFaults
     \/ next \in walk.followed /\ listFaults < MaxListFaults /\ listFaults' = listFaults + 1
  /\ IF CanStream(query)
     THEN rows' = rows \o Listed(query, ServerPages[walk.page])
     ELSE UNCHANGED rows
  /\ IF next > Len(ServerPages)
     THEN /\ walk' = [walk EXCEPT !.phase = "read"]
          /\ kept' = IF CanStream(query) THEN kept ELSE kept \o ServerPages[walk.page]
          /\ UNCHANGED listExit
     ELSE IF RepeatedToken(walk.followed, next)
     THEN ListError
     ELSE /\ walk' = [phase |-> "calling", page |-> next, tries |-> 1,
                      followed |-> walk.followed \cup {next}]
          /\ kept' = IF CanStream(query) THEN kept ELSE kept \o ServerPages[walk.page]
          /\ UNCHANGED listExit
  /\ UNCHANGED <<query, trended>>

\* The call for a page fails: again after a pause, or the walk is over.
PageFails(answer) ==
  /\ walk.phase = "calling" /\ answer # "ok"
  /\ listFaults < MaxListFaults /\ listFaults' = listFaults + 1
  /\ IF RetriesAfter(walk.tries, answer)
     THEN walk' = [walk EXCEPT !.phase = "pausing"] /\ UNCHANGED <<kept, listExit>>
     ELSE ListError
  /\ UNCHANGED <<query, rows, trended>>

PauseEnds ==
  /\ walk.phase = "pausing"
  /\ walk' = [walk EXCEPT !.phase = "calling", !.tries = @ + 1]
  /\ UNCHANGED <<query, kept, rows, trended, listExit, listFaults>>

(***************************************************************************)
(* All pages are read.  A streamed list is done; otherwise the trend of    *)
(* every HPA is recorded, whatever the filter keeps, then the rows are     *)
(* filtered and sorted, an unbounded --apply is refused, and the result is *)
(* printed.  The batch apply itself is ApplyPatch's.                       *)
(***************************************************************************)
FinishList ==
  /\ walk.phase = "read"
  /\ walk' = [walk EXCEPT !.phase = "over"]
  /\ trended' = IF query.trend THEN kept ELSE <<>>
  /\ IF CanStream(query)
     THEN listExit' = 0 /\ UNCHANGED rows
     ELSE IF query.apply /\ ~ApplyIsBounded(query)
     THEN listExit' = 1 /\ UNCHANGED rows
     ELSE listExit' = 0 /\ rows' = Sorted(query, Listed(query, kept))
  /\ UNCHANGED <<query, kept, listFaults>>

ListNext ==
  \/ \E next \in 1 .. Len(ServerPages) + 1 : PageArrives(next)
  \/ \E answer \in Answers : PageFails(answer)
  \/ PauseEnds
  \/ FinishList

-----------------------------------------------------------------------------
Served == FlattenSeq(ServerPages)

(***************************************************************************)
(* A list that succeeds shows every HPA its options select exactly once,   *)
(* and records the trend of every HPA it read; one that does not stream    *)
(* and fails shows and records nothing.  Bites when a page is taken twice, *)
(* or an error of a later page is swallowed.                               *)
(***************************************************************************)
ListIsWhole ==
  /\ listExit = 0 =>
       /\ Len(rows) = Len(Listed(query, Served))
       /\ ToSet(rows) = ToSet(Listed(query, Served))
       /\ query.trend => trended = Served
  /\ listExit = 1 /\ ~CanStream(query) => rows = <<>>
  /\ walk.phase = "over" /\ kept = <<>> => trended = <<>>

(***************************************************************************)
(* "The streaming path is purely additive and never changes existing       *)
(* output" (src/cmd/list.go:157-158): the rows are those of the accumulated    *)
(* path, in its order.                                                     *)
(***************************************************************************)
StreamedAsAccumulated ==
  listExit = 0 => rows = Sorted(query, Listed(query, Served))
=============================================================================
