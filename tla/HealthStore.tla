----------------------------- MODULE HealthStore ----------------------------
(* The health history of one HPA: a JSONL file shared by every run of the tool
   under an advisory lock, and the decoded cache each process keeps of it.

   A worker is a goroutine that calls the store; ProcOf says whose process it
   runs in.  Every step between two moments at which the process may die is an
   action.  Each call brings its own time: it is read before the lock is
   waited for, and clocks may step back.  A missing file is None.
   Sources: internal/history/store.go, scan_cache.go, lock.go, recorder.go. *)
EXTENDS HistoryFile

CONSTANTS Workers, Procs, ProcOf,
          Times,          \* times at which a call may be made
          Spans,          \* retentions and look-back windows
          InitialFiles,   \* contents found on disk, left by earlier runs
          MaxSnapshots,   \* bound on the snapshots recorded
          IOErrors,       \* may file operations fail?
          TornWrites,     \* may a failing write leave part of a line?
          None

ASSUME StoreAssumption ==
  /\ ProcOf \in [Workers -> Procs]
  /\ Times \subseteq Nat /\ Spans \subseteq Nat /\ Spans # {}
  /\ InitialFiles \subseteq Seq(Lines) \cup {None}
  /\ MaxSnapshots \in Nat /\ CompactAt \in Nat
  /\ IOErrors \in BOOLEAN /\ TornWrites \in BOOLEAN
  /\ Corrupt \notin Snapshots
  \* Snapshots on disk at the start have the lowest numbers, those of one
  \* time in the order of their lines.
  /\ \A found \in InitialFiles \ {None} :
       InOrder(found) /\ \A x \in Readable(found) : x.id <= Len(found)
  /\ None \notin Seq(Lines) /\ None \notin Workers /\ None \notin Snapshots

\* The public operations.  options_validation.go keeps since within retention;
\* the two are one where an operation takes a single duration.
Requests ==
  {r \in [kind : {"record"}, now : Times, retention : Spans, since : Spans] : r.since <= r.retention}
    \cup {[kind |-> k, now |-> t, retention |-> d, since |-> d] : k \in {"prune", "load"}, t \in Times, d \in Spans}
    \cup [kind : {"append"}, now : Times, retention : {0}, since : {0}]

VARIABLES
  file,      \* the lines on disk, or None
  torn,      \* does the last line lack its newline?
  lock,      \* the worker that holds the lock, or None
  cache,     \* each process's cached scan, or None
  pc,        \* where each worker is
  request,   \* its call
  mine,      \* the snapshot it records, or None
  scan,      \* what it read
  answer,    \* what the last step returned to which worker, if it did
  recorded,  \* number of snapshots handed out
  acked,     \* snapshots whose recording was reported as done
  purged     \* the latest cutoff of any rewrite

disk    == <<file, torn, purged>>
working == <<pc, request, mine, scan, recorded>>
vars    == <<disk, lock, cache, working, answer, acked>>

Critical == {"scanning", "appending", "staging", "renaming", "saving"}

NoScan   == [total |-> 0, expired |-> 0, retained |-> <<>>, corrupt |-> {}]
NoAnswer == [to |-> None, status |-> "none", window |-> <<>>]
NoCall   == [kind |-> "none", now |-> 0, retention |-> 0, since |-> 0]

Contents == IF file = None THEN <<>> ELSE file

TypeOK ==
  /\ file \in Seq(Lines) \cup {None}
  /\ torn \in BOOLEAN
  /\ lock \in Workers \cup {None}
  /\ \A p \in Procs :
       cache[p] = None \/ (cache[p].cutoff \in Int /\ cache[p].current \in BOOLEAN /\ cache[p].scan \in Scans)
  /\ pc \in [Workers -> {"idle", "waiting"} \cup Critical]
  /\ request \in [Workers -> Requests \cup {NoCall}]
  /\ mine \in [Workers -> Snapshots \cup {None}]
  /\ scan \in [Workers -> Scans]
  /\ answer \in [to : Workers \cup {None}, status : {"none", "ok", "corrupt", "error"}, window : Seq(Snapshots)]
  /\ recorded \in Nat
  /\ acked \subseteq Snapshots
  /\ purged \in Int

Init ==
  /\ file \in InitialFiles
  /\ torn = FALSE
  /\ lock = None
  /\ cache = [p \in Procs |-> None]
  /\ pc = [w \in Workers |-> "idle"]
  /\ request = [w \in Workers |-> NoCall]
  /\ mine = [w \in Workers |-> None]
  /\ scan = [w \in Workers |-> NoScan]
  /\ answer = NoAnswer
  /\ recorded = Len(Contents)
  /\ acked = Readable(Contents)
  /\ purged = -1

-----------------------------------------------------------------------------
(* Helpers *)

Writers == {"append", "record"}

\* The retention cutoff of a record or prune, the window of a load.
Cutoff(w) == request[w].now - request[w].retention

Goto(w, where) == pc' = [pc EXCEPT ![w] = where]

\* A step on the way, without an answer.
Silently == answer' = NoAnswer

\* The call returns and releases the lock it holds.
Return(w, status, window) ==
  /\ answer' = [to |-> w, status |-> status, window |-> window]
  /\ Goto(w, "idle")
  /\ lock' = None
  /\ request' = [request EXCEPT ![w] = NoCall]
  /\ mine' = [mine EXCEPT ![w] = None]
  /\ scan' = [scan EXCEPT ![w] = NoScan]

\* Corrupt lines are reported after the work is done.
Verdict(s) == IF s.corrupt = {} THEN "ok" ELSE "corrupt"

\* Mutant: nobody looks whether the file is still the same.
HitAnyFile(p, cutoff) == cache[p] # None /\ cutoff >= cache[p].cutoff

\* The cached scan may be used for this cutoff: same file, same size, same
\* modification time (current), and no narrower window than asked for.
Hit(p, cutoff) == cache[p] # None /\ cache[p].current /\ cutoff >= cache[p].cutoff

Cached(cutoff, s) == [cutoff |-> cutoff, current |-> TRUE, scan |-> s]

\* The file changed: what other processes have cached no longer matches it.
Outdated == [p \in Procs |-> IF cache[p] = None THEN None ELSE [cache[p] EXCEPT !.current = FALSE]]

\* What a record leaves on disk above the cutoff; a prune adds nothing.
Kept(w) == IF mine[w] = None THEN scan[w].retained ELSE Inserted(scan[w].retained, mine[w])

-----------------------------------------------------------------------------
(* A call, step by step *)

\* A call begins and tries the lock.
Begin(w) ==
  /\ pc[w] = "idle"
  /\ Goto(w, "waiting")
  /\ Silently
  /\ UNCHANGED <<disk, lock, cache, request, mine, scan, recorded, acked>>

\* What the call is; nothing depends on it before it has the lock.  The times
\* of calls need not follow the order of the locks.  Snapshots are numbered.
Asks(w, r) ==
  LET x == [at |-> r.now, id |-> recorded + 1] IN
  /\ request' = [request EXCEPT ![w] = r]
  /\ \/ /\ r.kind \in Writers /\ recorded < MaxSnapshots
        /\ mine' = [mine EXCEPT ![w] = x]
        /\ recorded' = recorded + 1
     \/ r.kind \notin Writers /\ UNCHANGED <<mine, recorded>>
  /\ Goto(w, IF r.kind = "append" THEN "appending" ELSE "scanning")

\* Mutant: a lock held for long is taken for abandoned.
LockStolen(w) ==
  /\ pc[w] = "waiting"
  /\ lock' = w
  /\ \E r \in Requests : Asks(w, r)
  /\ Silently
  /\ UNCHANGED <<disk, cache, scan, acked>>

\* acquireLockContext succeeds.
Lock(w) ==
  /\ pc[w] = "waiting" /\ lock = None
  /\ lock' = w
  /\ \E r \in Requests : Asks(w, r)
  /\ Silently
  /\ UNCHANGED <<disk, cache, scan, acked>>

\* Mutant: waiting has no deadline.
GiveUpNever(w) == pc[w] = "waiting" /\ FALSE /\ UNCHANGED vars

\* acquireLockContext gives up: deadline, cancellation, or no lock file.
GiveUp(w) ==
  /\ pc[w] = "waiting"
  /\ answer' = [to |-> w, status |-> "error", window |-> <<>>]
  /\ Goto(w, "idle")
  /\ UNCHANGED <<disk, lock, cache, request, mine, scan, recorded, acked>>

\* cachedHistoryScan: use the cached scan or read the file and cache that.
\* A load answers at once, a record appends or rewrites, a prune rewrites.
Scan(w) ==
  LET p == ProcOf[w]
      c == Cutoff(w)
      found == IF Hit(p, c) THEN Narrowed(cache[p].scan, c) ELSE ScanOf(Contents, c)
  IN
  /\ pc[w] = "scanning"
  /\ \/ /\ IOErrors /\ ~Hit(p, c)
        /\ cache' = [cache EXCEPT ![p] = None]
        /\ Return(w, "error", <<>>)
     \/ /\ cache' = [cache EXCEPT ![p] = IF file = None THEN None
                                          ELSE IF Hit(p, c) THEN @ ELSE Cached(c, found)]
        /\ \/ /\ request[w].kind = "load"
              /\ Return(w, Verdict(found), found.retained)
           \/ /\ request[w].kind # "load"
              /\ scan' = [scan EXCEPT ![w] = found]
              /\ Goto(w, IF request[w].kind = "prune" \/ ShouldCompact(found.total, found.expired)
                           THEN "staging" ELSE "appending")
              /\ Silently /\ UNCHANGED <<lock, request, mine>>
  /\ UNCHANGED <<disk, recorded, acked>>

\* appendSnapshotLine: forget the cached scan, open (and create) the file,
\* write one line, sync, close.  Any of these may fail, with nothing, part of
\* the line or all of it written.
AppendLine(w) ==
  LET p == ProcOf[w] IN
  /\ pc[w] = "appending"
  /\ \/ /\ file' = AddLine(Contents, torn, mine[w])
        /\ torn' = FALSE
        /\ \/ /\ request[w].kind = "record" /\ Goto(w, "saving")
              /\ Silently /\ UNCHANGED <<lock, request, mine, scan, acked>>
           \/ /\ request[w].kind = "append" /\ Return(w, "ok", <<>>)
              /\ acked' = acked \cup {mine[w]}
           \/ /\ IOErrors /\ Return(w, "error", <<>>)
              /\ UNCHANGED acked
     \/ /\ IOErrors
        /\ file' = Contents
        /\ Return(w, "error", <<>>)
        /\ UNCHANGED <<torn, acked>>
     \/ /\ TornWrites
        /\ \E part \in {Corrupt, mine[w]} : file' = AddLine(Contents, torn, part)
        /\ torn' = TRUE
        /\ Return(w, "error", <<>>)
        /\ UNCHANGED acked
  /\ cache' = [Outdated EXCEPT ![p] = None]
  /\ UNCHANGED <<recorded, purged>>

\* replaceSnapshots, first part: forget the cached scan, write and sync a
\* temporary file.  If that fails the temporary file is removed.
Stage(w) ==
  /\ pc[w] = "staging"
  /\ cache' = [cache EXCEPT ![ProcOf[w]] = None]
  /\ \/ Goto(w, "renaming") /\ Silently /\ UNCHANGED <<lock, request, mine, scan>>
     \/ IOErrors /\ Return(w, "error", <<>>)
  /\ UNCHANGED <<disk, recorded, acked>>

\* Mutant: a rewrite writes what was read, without the snapshot to record.
RenameStale(w) ==
  /\ pc[w] = "renaming"
  /\ file' = scan[w].retained
  /\ torn' = FALSE
  /\ purged' = IF Cutoff(w) > purged THEN Cutoff(w) ELSE purged
  /\ cache' = Outdated
  /\ \/ /\ request[w].kind = "record" /\ Goto(w, "saving")
        /\ Silently /\ UNCHANGED <<lock, request, mine, scan>>
     \/ request[w].kind = "prune" /\ Return(w, Verdict(scan[w]), <<>>)
  /\ UNCHANGED <<recorded, acked>>

\* replaceSnapshots, second part: the temporary file becomes the file.
Rename(w) ==
  /\ pc[w] = "renaming"
  /\ \/ /\ file' = Kept(w)
        /\ torn' = FALSE
        /\ purged' = IF Cutoff(w) > purged THEN Cutoff(w) ELSE purged
        /\ cache' = Outdated
        /\ \/ /\ request[w].kind = "record" /\ Goto(w, "saving")
              /\ Silently /\ UNCHANGED <<lock, request, mine, scan>>
           \/ request[w].kind = "prune" /\ Return(w, Verdict(scan[w]), <<>>)
     \/ /\ IOErrors
        /\ Return(w, "error", <<>>)
        /\ UNCHANGED <<disk, cache>>
  /\ UNCHANGED <<recorded, acked>>

\* Mutant: the appended snapshot is not counted.
WrittenUncounted(w) ==
  LET s == scan[w] IN
  IF ShouldCompact(s.total, s.expired)
    THEN [total |-> Len(Kept(w)), expired |-> 0, retained |-> Kept(w), corrupt |-> {}]
    ELSE [total |-> s.total, expired |-> s.expired, retained |-> Kept(w), corrupt |-> s.corrupt]

\* The scan RecordAndLoad caches as the exact written state.
Written(w) ==
  LET s == scan[w] IN
  IF ShouldCompact(s.total, s.expired)
    THEN [total |-> Len(Kept(w)), expired |-> 0, retained |-> Kept(w), corrupt |-> {}]
    ELSE [total |-> s.total + 1, expired |-> s.expired, retained |-> Kept(w), corrupt |-> s.corrupt]

\* RecordAndLoad, last part: cache what was written and return the window.
Save(w) ==
  /\ pc[w] = "saving"
  /\ cache' = [cache EXCEPT ![ProcOf[w]] = Cached(Cutoff(w), Written(w))]
  /\ acked' = acked \cup {mine[w]}
  /\ Return(w, Verdict(scan[w]), NotBefore(Kept(w), request[w].now - request[w].since))
  /\ UNCHANGED <<disk, recorded>>

-----------------------------------------------------------------------------
(* What else happens *)

\* Other streams push this one out of the process's bounded cache.
Evict(p) ==
  /\ cache[p] # None
  /\ cache' = [cache EXCEPT ![p] = None]
  /\ Silently
  /\ UNCHANGED <<disk, lock, working, acked>>

\* A process dies and is run again: the kernel drops its lock, a temporary
\* file stays behind unread.
Crash(p) ==
  LET dead == {w \in Workers : ProcOf[w] = p} IN
  /\ \E w \in dead : pc[w] # "idle"
  /\ lock' = IF lock \in dead THEN None ELSE lock
  /\ cache' = [cache EXCEPT ![p] = None]
  /\ pc' = [w \in Workers |-> IF w \in dead THEN "idle" ELSE pc[w]]
  /\ request' = [w \in Workers |-> IF w \in dead THEN NoCall ELSE request[w]]
  /\ mine' = [w \in Workers |-> IF w \in dead THEN None ELSE mine[w]]
  /\ scan' = [w \in Workers |-> IF w \in dead THEN NoScan ELSE scan[w]]
  /\ Silently
  /\ UNCHANGED <<disk, recorded, acked>>

Proceed(w) ==
  \/ Lock(w) \/ GiveUp(w) \/ Scan(w) \/ AppendLine(w) \/ Stage(w) \/ Rename(w) \/ Save(w)

Next ==
  \/ \E w \in Workers : Begin(w) \/ Proceed(w)
  \/ \E p \in Procs : Evict(p) \/ Crash(p)

Spec == Init /\ [][Next]_vars

FairSpec == Spec /\ \A w \in Workers : WF_vars(Proceed(w))

-----------------------------------------------------------------------------
(* Properties *)

\* At most one worker, of whatever process, is between lock and release, also
\* after owners died (lock.go; the earlier design lost this by reclaiming).
MutualExclusion == \A w \in Workers : pc[w] \in Critical => lock = w

\* The cache is invisible: a cached scan that would be used equals a new scan of
\* the file, through every window it may be used for ("Cache the exact written
\* state", store.go; "eviction changes performance only", scan_cache.go).
CacheExact ==
  \A p \in Procs : \A now \in Times, d \in Spans :
    Hit(p, now - d) => Narrowed(cache[p].scan, now - d) = ScanOf(Contents, now - d)

\* A snapshot reported as recorded stays readable for everybody until some
\* rewrite's retention has passed it: no concurrent append, rewrite, failed
\* operation or crash loses it.
AckedStaysReadable ==
  \A x \in acked : x \in Readable(Contents) \/ x.at <= purged

\* Answers are in time order, and snapshots of one time in the order they were
\* recorded, whether they come from the cache, a scan or after a rewrite.
AnswersInOrder ==
  \A j \in DOMAIN answer.window : \A i \in 1 .. j - 1 :
    LET x == answer.window[i]
        y == answer.window[j]
    IN  x.at < y.at \/ (x.at = y.at /\ x.id < y.id)

\* Expired snapshots cannot pile up: when a record returns, what is on disk
\* beyond its retention, its own snapshot aside, is less than the compaction
\* threshold and less than half of what else is there, whoever wrote it.
OnDiskBefore(w) == {i \in DOMAIN Contents : file[i] # Corrupt /\ file[i] # mine[w]}
Expired(w)      == {i \in OnDiskBefore(w) : file[i].at <= Cutoff(w)}

GarbageBoundedBy(w) ==
  pc[w] = "saving" /\ answer'.status \in {"ok", "corrupt"} /\ Expired(w) # {} =>
    /\ Cardinality(Expired(w)) < CompactAt
    /\ 2 * Cardinality(Expired(w)) < Cardinality(OnDiskBefore(w))

GarbageBounded == [][\A w \in Workers : GarbageBoundedBy(w)]_vars

\* Every call returns: it gets the lock and finishes, or its wait times out,
\* also when holders die and others keep taking the lock.
CallsReturn == \A w \in Workers : pc[w] # "idle" ~> pc[w] = "idle"

-----------------------------------------------------------------------------
(* What the store promises: a set of snapshots with atomic operations. *)
Log == INSTANCE SnapshotLog WITH
  log    <- Readable(Contents),
  own    <- mine,
  answer <- [to |-> answer.to,
             status |-> IF answer.status = "corrupt" THEN "ok" ELSE answer.status,
             window |-> Readable(answer.window)]

\* Locks, scans, caches, appends and rewrites together are one atomic log per
\* HPA: what a call returns is what the log holds at that moment, a failed or
\* interrupted call has stored its snapshot or not, and nothing else changes.
ImplementsSnapshotLog == Log!Spec

=============================================================================
