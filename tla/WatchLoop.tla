----------------------------- MODULE WatchLoop -----------------------------
(***************************************************************************)
(* The polling commands: `watch` and `list --watch` (src/cmd/watch.go)      *)
(* redraw a report until a condition holds, the timeout passes or the user *)
(* stops; `timeline` (src/cmd/timeline.go) redraws the last WindowSize      *)
(* snapshots.  A poll is a StatusRun or a ListRun; here it ends or fails.  *)
(***************************************************************************)
EXTENDS Naturals, Sequences

CONSTANTS
  WindowSize,   \* maxTimelineSnapshots
  Observed,     \* what a poll may see
  Awaited,      \* the observations that meet --until
  MaxPolls      \* bound: the polls of a run

WatchAssumption == WindowSize \in Nat \ {0} /\ MaxPolls \in Nat
ASSUME WatchAssumption

VARIABLES
  loop,         \* [kind, phase, until]: phase is "polling", "waiting" or why it ended
  previous,     \* what the report is compared with, a sequence of at most one
  window,       \* timeline: the snapshots drawn
  polled        \* all that was seen, in order

watchVars == <<loop, previous, window, polled>>

WatchInit ==
  /\ loop \in [kind : {"watch", "list", "timeline"}, phase : {"polling"}, until : BOOLEAN]
  /\ loop.until => loop.kind = "watch"
  /\ previous = <<>> /\ window = <<>> /\ polled = <<>>

\* Mutant: the window is cut at the wrong end.
SlideBack(snapshots, next) ==
  LET all == Append(snapshots, next)
  IN  IF Len(all) > WindowSize THEN SubSeq(all, 1, WindowSize) ELSE all

(***************************************************************************)
(* The window loses its oldest snapshot when it is full.                   *)
(***************************************************************************)
Slide(snapshots, next) ==
  LET all == Append(snapshots, next)
  IN  IF Len(all) > WindowSize THEN SubSeq(all, Len(all) - WindowSize + 1, Len(all)) ELSE all

\* A poll is drawn; `watch --until` stops at the first report that has its condition.
PollDone(seen) ==
  /\ loop.phase = "polling" /\ Len(polled) < MaxPolls
  /\ polled' = Append(polled, seen)
  /\ previous' = IF loop.kind = "watch" THEN <<seen>> ELSE <<>>
  /\ window' = IF loop.kind = "timeline" THEN Slide(window, seen) ELSE <<>>
  /\ loop' = [loop EXCEPT !.phase = IF loop.until /\ seen \in Awaited THEN "met" ELSE "waiting"]

\* A poll that fails ends the loop with its error, whatever was drawn before.
PollFails ==
  /\ loop.phase = "polling"
  /\ loop' = [loop EXCEPT !.phase = "failed"]
  /\ UNCHANGED <<previous, window, polled>>

TickArrives ==
  /\ loop.phase = "waiting"
  /\ loop' = [loop EXCEPT !.phase = "polling"]
  /\ UNCHANGED <<previous, window, polled>>

\* The timeout of `watch`, or Ctrl+C: the loop ends with the context's error.
StopLoop ==
  /\ loop.phase = "waiting"
  /\ loop' = [loop EXCEPT !.phase = "stopped"]
  /\ UNCHANGED <<previous, window, polled>>

WatchNext ==
  \/ \E seen \in Observed : PollDone(seen)
  \/ PollFails
  \/ TickArrives
  \/ StopLoop

(***************************************************************************)
(* The timeline always draws the latest snapshots, none twice and none     *)
(* missing, however long it runs; and a watch that waits for a condition   *)
(* never polls on past a report that had it.  Bites when the window is cut *)
(* at the wrong end or one too short.                                      *)
(***************************************************************************)
WindowIsLatest ==
  /\ loop.kind = "timeline" =>
       /\ Len(window) = IF Len(polled) < WindowSize THEN Len(polled) ELSE WindowSize
       /\ \A k \in DOMAIN window : window[k] = polled[Len(polled) - Len(window) + k]
  /\ loop.until => \A k \in 1 .. Len(polled) - 1 : polled[k] \notin Awaited
=============================================================================
