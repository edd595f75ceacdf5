------------------------------ MODULE Recorder ------------------------------
(***************************************************************************)
(* `timeline --record FILE` (src/cmd/timeline_record.go): recorders poll    *)
(* HPAs and append what they see to a file of lines.  The first batch is   *)
(* written to a temporary file that is synced and then renamed over the    *)
(* destination; later batches are appended to the file that stays open.    *)
(* Other recorders may use the same destination, a disk may fill up, and a *)
(* machine may lose what was not synced.                                   *)
(***************************************************************************)
EXTENDS Integers, Sequences, FiniteSets, SequencesExt

CONSTANTS
  Recorders,
  Hpas,             \* the HPAs in the recording scope
  Batches,          \* what a tick may see: a line for each HPA, in the order of the list
  ChangeLimit,      \* recordSummaryChangeLimit
  MaxTicks          \* bound: [Recorders -> the batches it may record]

\* A snapshot as it is written: the HPA and its desired replicas.
RecordLines == [hpa : Hpas, desired : Nat]

\* What a line that was cut short leaves in the file.
Torn == [hpa |-> "torn", desired |-> 0]

(***************************************************************************)
(* A list names every HPA once.                                            *)
(***************************************************************************)
ASSUME RecorderAssumption ==
  /\ ChangeLimit \in Nat \ {0} /\ MaxTicks \in [Recorders -> Nat]
  /\ Torn.hpa \notin Hpas
  /\ \A batch \in Batches :
       /\ batch \in Seq(RecordLines)
       /\ \A i, j \in DOMAIN batch : batch[i].hpa = batch[j].hpa => i = j

(***************************************************************************)
(* A file is [owner, lines, synced]: its lines are RecordLines, the last   *)
(* of which may be torn; `synced` of them survive a crash.  The directory  *)
(* entry is the file's number; file 1 was there before.                    *)
(***************************************************************************)
VARIABLES
  files,        \* [number -> file]
  entry,        \* the file the destination names, or 0
  rec,          \* [Recorders -> [phase, file, saw, size, batch, left, ticks]]
  announced,    \* [Recorders -> [lines, batches]: what it has said it recorded]
  summary       \* [Recorders -> [counts, previous, changes, omitted]]

recVars == <<files, entry, rec, announced, summary>>

-----------------------------------------------------------------------------
\* The summary of a recording (src/cmd/timeline_record_summary.go).

Absent == -1

HpasOf(batch) == {line.hpa : line \in ToSet(batch)}

Desired(batch, h) == (CHOOSE line \in ToSet(batch) : line.hpa = h).desired

EmptySummary == [counts   |-> [h \in Hpas |-> 0],
                 previous |-> [h \in Hpas |-> Absent],
                 changes  |-> [h \in Hpas |-> <<>>],
                 omitted  |-> [h \in Hpas |-> 0]]

\* Mutant: a change that pushes another out is not counted.
TrackWithoutCount(s, batch) ==
  LET changed(h) == h \in HpasOf(batch) /\ s.previous[h] \notin {Absent, Desired(batch, h)}
      full(h) == Len(s.changes[h]) = ChangeLimit
  IN [counts   |-> [h \in Hpas |-> s.counts[h] + (IF h \in HpasOf(batch) THEN 1 ELSE 0)],
      previous |-> [h \in Hpas |-> IF h \in HpasOf(batch) THEN Desired(batch, h) ELSE Absent],
      changes  |-> [h \in Hpas |->
                      IF ~changed(h) THEN s.changes[h]
                      ELSE Append(IF full(h) THEN Tail(s.changes[h]) ELSE s.changes[h], Desired(batch, h))],
      omitted  |-> s.omitted]

(***************************************************************************)
(* A change is noted against the previous batch only: an HPA that was away *)
(* starts anew.                                                            *)
(* The list of changes keeps the last ChangeLimit and counts the others.   *)
(***************************************************************************)
Track(s, batch) ==
  LET changed(h) == h \in HpasOf(batch) /\ s.previous[h] \notin {Absent, Desired(batch, h)}
      full(h) == Len(s.changes[h]) = ChangeLimit
  IN [counts   |-> [h \in Hpas |-> s.counts[h] + (IF h \in HpasOf(batch) THEN 1 ELSE 0)],
      previous |-> [h \in Hpas |-> IF h \in HpasOf(batch) THEN Desired(batch, h) ELSE Absent],
      changes  |-> [h \in Hpas |->
                      IF ~changed(h) THEN s.changes[h]
                      ELSE Append(IF full(h) THEN Tail(s.changes[h]) ELSE s.changes[h], Desired(batch, h))],
      omitted  |-> [h \in Hpas |-> s.omitted[h] + (IF changed(h) /\ full(h) THEN 1 ELSE 0)]]

-----------------------------------------------------------------------------
RecInit ==
  /\ files = <<[owner |-> "someone", lines |-> <<>>, synced |-> 0]>>
  /\ entry \in {0, 1}
  /\ rec = [r \in Recorders |-> [phase |-> "start", file |-> 0, saw |-> 0, size |-> 0,
                                 batch |-> <<>>, left |-> <<>>, ticks |-> 0]]
  /\ announced = [r \in Recorders |-> [lines |-> 0, batches |-> 0]]
  /\ summary = [r \in Recorders |-> EmptySummary]

Goes(r, phase) == rec' = [rec EXCEPT ![r].phase = phase]

(***************************************************************************)
(* The first batch is read before the destination is looked at; without a  *)
(* match, or when the read fails, nothing was touched.                     *)
(***************************************************************************)
CollectFirst(r, batch) ==
  /\ rec[r].phase = "start"
  /\ rec' = IF batch = <<>>
            THEN [rec EXCEPT ![r].phase = "failed"]
            ELSE [rec EXCEPT ![r] = [@ EXCEPT !.phase = "inspect", !.batch = batch]]
  /\ UNCHANGED <<files, entry, announced, summary>>

CollectFails(r) ==
  /\ rec[r].phase \in {"start", "wait"}
  /\ Goes(r, "failed")
  /\ UNCHANGED <<files, entry, announced, summary>>

\* How much there is in the file the destination names.
EntrySize == IF entry = 0 THEN 0 ELSE Len(files[entry].lines)

\* Lstat: remember what the destination is, and prepare a temporary file.
Inspect(r) ==
  /\ rec[r].phase = "inspect"
  /\ files' = Append(files, [owner |-> r, lines |-> <<>>, synced |-> 0])
  /\ rec' = [rec EXCEPT ![r] = [@ EXCEPT !.phase = "prepare", !.saw = entry, !.size = EntrySize,
                                         !.file = Len(files) + 1, !.left = rec[r].batch]]
  /\ UNCHANGED <<entry, announced, summary>>

(***************************************************************************)
(* A line goes out; when the disk is full only a part of it does, and the  *)
(* recording ends.  The same for the first batch and for later ones.       *)
(***************************************************************************)
WriteLine(r) ==
  /\ rec[r].phase \in {"prepare", "append"} /\ rec[r].left # <<>>
  /\ files' = [files EXCEPT ![rec[r].file].lines = Append(@, Head(rec[r].left))]
  /\ rec' = [rec EXCEPT ![r].left = Tail(@)]
  /\ UNCHANGED <<entry, announced, summary>>

DiskFull(r) ==
  /\ rec[r].phase \in {"prepare", "append"} /\ rec[r].left # <<>>
  /\ files' = [files EXCEPT ![rec[r].file].lines = Append(@, Torn)]
  /\ Goes(r, "failed")
  /\ UNCHANGED <<entry, announced, summary>>

Synced(f) == [f EXCEPT !.synced = Len(f.lines)]

\* Mutant: the first batch is renamed before it is synced.
SyncLater(r) ==
  /\ rec[r].phase = "prepare" /\ rec[r].left = <<>>
  /\ Goes(r, "recheck")
  /\ UNCHANGED <<files, entry, announced, summary>>

\* The whole first batch is on disk before the destination is touched.
SyncFirst(r) ==
  /\ rec[r].phase = "prepare" /\ rec[r].left = <<>>
  /\ files' = [files EXCEPT ![rec[r].file] = Synced(@)]
  /\ Goes(r, "recheck")
  /\ UNCHANGED <<entry, announced, summary>>

(***************************************************************************)
(* ensureRecordDestinationUnchanged: another file there now, or lines that *)
(* were appended to it (size and time changed), stop the recording.        *)
(***************************************************************************)
Recheck(r) ==
  /\ rec[r].phase = "recheck"
  /\ Goes(r, IF entry = rec[r].saw /\ EntrySize = rec[r].size THEN "publish" ELSE "failed")
  /\ UNCHANGED <<files, entry, announced, summary>>

Announce(told, batch) ==
  [lines |-> told.lines + Len(batch), batches |-> told.batches + 1]

\* Rename, sync the directory, and announce the first batch.
Publish(r) ==
  /\ rec[r].phase = "publish"
  /\ entry' = rec[r].file
  /\ announced' = [announced EXCEPT ![r] = Announce(@, rec[r].batch)]
  /\ summary' = [summary EXCEPT ![r] = Track(@, rec[r].batch)]
  /\ rec' = [rec EXCEPT ![r] = [@ EXCEPT !.phase = "wait", !.ticks = 1]]
  /\ UNCHANGED files

\* The rename is done, but the directory cannot be synced: an error, and nothing is announced.
PublishFails(r) ==
  /\ rec[r].phase = "publish"
  /\ entry' = rec[r].file
  /\ Goes(r, "failed")
  /\ UNCHANGED <<files, announced, summary>>

(***************************************************************************)
(* A tick: the batch is read, and only then is the destination checked to  *)
(* still be the open file.                                                 *)
(***************************************************************************)
Tick(r, batch) ==
  /\ rec[r].phase = "wait" /\ rec[r].ticks < MaxTicks[r]
  /\ rec' = IF entry # rec[r].file
            THEN [rec EXCEPT ![r].phase = "failed"]
            ELSE [rec EXCEPT ![r] = [@ EXCEPT !.phase = "append", !.batch = batch,
                                              !.left = batch, !.ticks = rec[r].ticks + 1]]
  /\ UNCHANGED <<files, entry, announced, summary>>

\* The batch is synced, counted and announced.
SyncBatch(r) ==
  /\ rec[r].phase = "append" /\ rec[r].left = <<>>
  /\ files' = [files EXCEPT ![rec[r].file] = Synced(@)]
  /\ summary' = [summary EXCEPT ![r] = Track(@, rec[r].batch)]
  /\ announced' = [announced EXCEPT ![r] = Announce(@, rec[r].batch)]
  /\ Goes(r, "wait")
  /\ UNCHANGED entry

\* Ctrl+C between two ticks: the summary is printed.
Stop(r) ==
  /\ rec[r].phase = "wait"
  /\ files' = [files EXCEPT ![rec[r].file] = Synced(@)]
  /\ Goes(r, "stopped")
  /\ UNCHANGED <<entry, announced, summary>>

\* The machine stops: every recorder is gone, and so is what was not synced.
PowerLoss ==
  /\ \E r \in Recorders : rec[r].phase \notin {"start", "lost"}
  /\ files' = [n \in DOMAIN files |->
                 [files[n] EXCEPT !.lines = SubSeq(@, 1, files[n].synced)]]
  /\ rec' = [r \in Recorders |-> [rec[r] EXCEPT !.phase = "lost"]]
  /\ UNCHANGED <<entry, announced, summary>>

RecNext ==
  \/ \E r \in Recorders :
       \/ CollectFails(r) \/ Inspect(r) \/ WriteLine(r) \/ DiskFull(r)
       \/ SyncFirst(r) \/ Recheck(r) \/ Publish(r) \/ PublishFails(r) \/ SyncBatch(r) \/ Stop(r)
       \/ \E batch \in Batches : CollectFirst(r, batch) \/ Tick(r, batch)
  \/ PowerLoss

-----------------------------------------------------------------------------
(***************************************************************************)
(* Reading a recording back (timeline --from-record, analyze-record): the  *)
(* lines of an HPA joined in file order.  One torn line makes the file     *)
(* unreadable as lines, and as a single trace it is only readable when it  *)
(* is one line.                                                            *)
(***************************************************************************)
Unreadable == "unreadable"

TraceOf(lines, hpa) ==
  FlattenSeq([k \in DOMAIN lines |-> IF lines[k].hpa = hpa THEN <<lines[k].desired>> ELSE <<>>])

LoadTrace(lines, hpa) ==
  IF \E k \in DOMAIN lines : lines[k] = Torn THEN Unreadable ELSE TraceOf(lines, hpa)

-----------------------------------------------------------------------------
(***************************************************************************)
(* What a recorder has announced ("Recorded n snapshot(s)") is in its file *)
(* and survives a power loss, and the destination never names a file whose *)
(* first batch is not whole.  Bites when a batch is announced before it is *)
(* synced, or the file renamed before it is written.                       *)
(***************************************************************************)
AnnouncedIsDurable ==
  /\ \A r \in Recorders : announced[r].lines > 0 => files[rec[r].file].synced >= announced[r].lines
  /\ entry > 1 => files[entry].synced > 0

(***************************************************************************)
(* The summary tells what the file says: it counts the lines announced,    *)
(* and the changes of an HPA, kept and omitted, are those a reader of the  *)
(* file finds; fewer when the HPA was away in between.  Bites when the     *)
(* bounded list forgets to count what it drops, or an HPA that comes back  *)
(* is compared with what it was.                                           *)
(***************************************************************************)
ChangesIn(seq) == Cardinality({k \in 2 .. Len(seq) : seq[k] # seq[k - 1]})

SummaryMatchesFile ==
  \A r \in Recorders : \A h \in Hpas :
    announced[r].lines > 0 =>
      LET read == LoadTrace(SubSeq(files[rec[r].file].lines, 1, announced[r].lines), h)
          s == summary[r]
          noted == Len(s.changes[h]) + s.omitted[h]
      IN /\ Len(read) = s.counts[h]
         /\ noted <= ChangesIn(read)
         /\ s.counts[h] = announced[r].batches => noted = ChangesIn(read)
=============================================================================
