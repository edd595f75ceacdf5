------------------------------ MODULE MCReads ------------------------------
(***************************************************************************)
(* The commands that read the cluster, one at a time: `status` and         *)
(* `blockers` over several names, `list`, the recorders and the polling    *)
(* loops.  `command` says which one runs; the others stay where they are.  *)
(***************************************************************************)
EXTENDS Integers, StatusRun, ListRun, Recorder, WatchLoop

VARIABLE command

vars == <<command, runVars, listVars, recVars, watchVars>>

MCFlagSets ==
  {{}, {"no-enrich", "trend"}, {"scale-path", "explain-pods", "trend"}, {"capacity-plan"},
   {"headroom", "scaleout-blockers"}, {"context"}, {"readiness-impact", "rollout"},
   {"metric-freshness"}, {"keda", "vpa", "simulate"}, {"check-resources"}, {"bad-simulation"},
   {"gitops-check", "metric-contract"}, {"controller-profile", "container-advisor", "events"}}

Row(name, score, health, diff, order) ==
  [name |-> name, score |-> score, health |-> health, diff |-> diff, order |-> order]

\* Two HPAs of one name in two namespaces, and a healthy one among the sick.
MCPages == << <<Row(2, 100, "OK", 0, 1)>>, <<Row(3, 40, "ERROR", 2, 2), Row(1, 40, "ERROR", 1, 3)>>,
              <<Row(2, 70, "LIMITED", 0, 4)>> >>

Query(sortBy, problem, filter, min, max) ==
  [sortBy |-> sortBy, problem |-> problem, filter |-> filter, min |-> min, max |-> max,
   trend |-> FALSE, apply |-> FALSE, whole |-> FALSE]

MCQueries ==
  {Query("", FALSE, "", -1, -1), Query("", TRUE, "", -1, -1), Query("diff", FALSE, "ERROR", -1, -1),
   Query("healthscore", FALSE, "", 0, 70)}
  \cup {[Query("", p, f, -1, -1) EXCEPT !.apply = TRUE] : p \in BOOLEAN, f \in {"", "all", "ERROR"}}
  \cup {[Query("", FALSE, "OK", -1, -1) EXCEPT !.trend = TRUE],
        [Query("", FALSE, "", -1, 120) EXCEPT !.whole = TRUE]}

\* One recorder goes on, the other comes once.
CONSTANTS r1, r2, web, api
MCTicks == [r \in {r1, r2} |-> IF r = r1 THEN 3 ELSE 1]

Line(hpa, desired) == [hpa |-> hpa, desired |-> desired]

MCBatches == {<<>>, <<Line(web, 0)>>, <<Line(web, 2), Line(api, 1)>>}

Init ==
  /\ command \in {"run", "list", "record", "watch"}
  /\ RunInit /\ ListInit /\ RecInit /\ WatchInit
  /\ command # "run" => mode = "blockers"
  /\ command # "list" => query = Query("", FALSE, "", -1, -1)
  /\ command # "record" => entry = 0
  /\ command # "watch" => loop.kind = "list"

RunKeeps == UNCHANGED <<command, listVars, recVars, watchVars>>
ListKeeps == UNCHANGED <<command, runVars, recVars, watchVars>>

Next ==
  \/ command = "run" /\ RunNext /\ RunKeeps
  \/ command = "list" /\ ListNext /\ ListKeeps
  \/ command = "record" /\ RecNext /\ UNCHANGED <<command, runVars, listVars, watchVars>>
  \/ command = "watch" /\ WatchNext /\ UNCHANGED <<command, runVars, listVars, recVars>>

Spec == Init /\ [][Next]_vars

(***************************************************************************)
(* Every job of a run has a goroutine of its own, a list has one, and a    *)
(* call to the server ends in an answer or an error.  The user owes nothing.*)
(***************************************************************************)
FairSpec ==
  /\ Spec
  /\ \A i \in Jobs : WF_vars(command = "run" /\ JobStep(i) /\ RunKeeps)
  /\ WF_vars(command = "run" /\ Finish /\ RunKeeps)
  /\ WF_vars(command = "list" /\ ListNext /\ ListKeeps)

(***************************************************************************)
(* A run over several names and a list end, whatever the server answers:   *)
(* no job waits forever for a shared observation another one gave up on,   *)
(* for a slot, or for a page that never stops coming.                      *)
(***************************************************************************)
CommandEnds == command \in {"run", "list"} ~> exit # NoExit \/ listExit # NoExit
=============================================================================
