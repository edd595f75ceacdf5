----------------------------- MODULE StoreProofs -----------------------------
(* Theorems about HealthStore, for any workers, processes, times, retentions
   and files, with crashes and failing file operations, and without any bound
   on how long it runs: the types, the lock, the order of answers, that nothing
   reported as recorded is lost, that the store implements the atomic log of
   SnapshotLog, that a cached scan equals a new one, and that expired snapshots
   do not pile up.  The last four are about a store whose failing writes leave
   whole lines or none (TornWrites is FALSE). *)
EXTENDS HealthStore, HistoryProofs

Status == {"none", "ok", "corrupt", "error"}

Caches == [cutoff : Int, current : BOOLEAN, scan : Scans]

DiskType ==
  /\ file \in Seq(Lines) \cup {None}
  /\ torn \in BOOLEAN
  /\ torn => TornWrites /\ Contents # <<>>
  /\ purged \in Int

CallType ==
  /\ lock \in Workers \cup {None}
  /\ pc \in [Workers -> {"idle", "waiting"} \cup Critical]
  /\ request \in [Workers -> Requests \cup {NoCall}]
  /\ mine \in [Workers -> Snapshots \cup {None}]
  /\ scan \in [Workers -> Scans]
  /\ answer \in [to : Workers \cup {None}, status : Status, window : Seq(Snapshots)]
  /\ recorded \in Nat
  /\ acked \subseteq Snapshots

CacheType == cache \in [Procs -> Caches \cup {None}]

TypeInv == DiskType /\ CallType /\ CacheType

-----------------------------------------------------------------------------
(* What the pieces of a step are *)

LEMMA RequestFields ==
  ASSUME NEW r \in Requests \cup {NoCall}
  PROVE  /\ r.now \in Nat /\ r.retention \in Nat /\ r.since \in Nat
         /\ r \in Requests =>
              /\ r.kind \in {"record", "prune", "load", "append"}
              /\ r.now \in Times /\ r # NoCall
<1>1. \A d \in Spans : d \in Nat
  BY StoreAssumption
<1>2. \A t \in Times : t \in Nat
  BY StoreAssumption
<1>3. ASSUME r \in {q \in [kind : {"record"}, now : Times, retention : Spans, since : Spans] : q.since <= q.retention}
      PROVE  r.kind = "record" /\ r.now \in Times /\ r.retention \in Spans /\ r.since \in Spans
  BY <1>3
<1>4. ASSUME r \in {[kind |-> k, now |-> t, retention |-> d, since |-> d] :
                      k \in {"prune", "load"}, t \in Times, d \in Spans}
      PROVE  r.kind \in {"prune", "load"} /\ r.now \in Times /\ r.retention \in Spans /\ r.since \in Spans
  BY <1>4
<1>5. ASSUME r \in [kind : {"append"}, now : Times, retention : {0}, since : {0}]
      PROVE  r.kind = "append" /\ r.now \in Times /\ r.retention = 0 /\ r.since = 0
  BY <1>5
<1>6. ASSUME r = NoCall
      PROVE  r.kind = "none" /\ r.now = 0 /\ r.retention = 0 /\ r.since = 0
  BY <1>6 DEF NoCall
<1>7. NoCall.kind = "none"
  BY DEF NoCall
<1> QED
  BY <1>1, <1>2, <1>3, <1>4, <1>5, <1>6, <1>7 DEF Requests

LEMMA CutoffIsTime ==
  ASSUME CallType, NEW w \in Workers
  PROVE  Cutoff(w) \in Int
<1>1. request[w] \in Requests \cup {NoCall}
  BY DEF CallType
<1>2. request[w].now \in Nat /\ request[w].retention \in Nat
  BY <1>1, RequestFields
<1> QED
  BY <1>2 DEF Cutoff

LEMMA NoScanIsScan == NoScan \in Scans
<1>1. <<>> \in Seq(Snapshots)
  OBVIOUS
<1> QED
  BY <1>1 DEF NoScan, Scans

LEMMA ContentsType ==
  ASSUME DiskType
  PROVE  /\ Contents \in Seq(Lines)
         /\ file # None => Contents = file
<1>1. <<>> \in Seq(Lines)
  OBVIOUS
<1> QED
  BY <1>1 DEF DiskType, Contents

\* What a return leaves behind.
LEMMA ReturnType ==
  ASSUME CallType, NEW w \in Workers, NEW status \in Status, NEW window \in Seq(Snapshots),
         Return(w, status, window)
  PROVE  /\ lock' = None
         /\ pc' \in [Workers -> {"idle", "waiting"} \cup Critical]
         /\ request' \in [Workers -> Requests \cup {NoCall}]
         /\ mine' \in [Workers -> Snapshots \cup {None}]
         /\ scan' \in [Workers -> Scans]
         /\ answer' \in [to : Workers \cup {None}, status : Status, window : Seq(Snapshots)]
         /\ pc' = [pc EXCEPT ![w] = "idle"]
<1>1. answer' \in [to : Workers \cup {None}, status : Status, window : Seq(Snapshots)]
  BY DEF Return
<1>2. scan' \in [Workers -> Scans]
  BY NoScanIsScan DEF Return, CallType
<1>3. request' \in [Workers -> Requests \cup {NoCall}]
  BY DEF Return, CallType
<1> QED
  BY <1>1, <1>2, <1>3 DEF Return, CallType, Goto

LEMMA SilentType ==
  ASSUME Silently
  PROVE  answer' \in [to : Workers \cup {None}, status : Status, window : Seq(Snapshots)]
<1>1. <<>> \in Seq(Snapshots)
  OBVIOUS
<1> QED
  BY <1>1 DEF Silently, NoAnswer, Status

LEMMA GotoType ==
  ASSUME CallType, NEW w \in Workers, NEW p \in {"idle", "waiting"} \cup Critical, Goto(w, p)
  PROVE  pc' \in [Workers -> {"idle", "waiting"} \cup Critical]
BY DEF CallType, Goto

LEMMA OutdatedType ==
  ASSUME CacheType
  PROVE  Outdated \in [Procs -> Caches \cup {None}]
<1>1. ASSUME NEW p \in Procs, cache[p] # None
      PROVE  [cache[p] EXCEPT !.current = FALSE] \in Caches
  BY <1>1 DEF CacheType, Caches
<1> QED
  BY <1>1 DEF Outdated

\* What a scan finds, in the cache or in the file.
LEMMA FoundType ==
  ASSUME TypeInv, NEW w \in Workers, NEW p \in Procs
  PROVE  LET c == Cutoff(w)
             found == IF Hit(p, c) THEN Narrowed(cache[p].scan, c) ELSE ScanOf(Contents, c)
         IN  found \in Scans /\ found.retained \in Seq(Snapshots)
<1> DEFINE c == Cutoff(w)
<1>1. c \in Int
  BY CutoffIsTime DEF TypeInv
<1> HIDE DEF c
<1>2. ScanOf(Contents, c) \in Scans
  BY <1>1, ContentsType, ScanRetains, StoreAssumption DEF TypeInv
<1>3. ASSUME Hit(p, c) PROVE Narrowed(cache[p].scan, c) \in Scans
  <2>1. cache[p] \in Caches
    BY <1>3 DEF TypeInv, CacheType, Hit
  <2>2. cache[p].scan \in Scans
    BY <2>1 DEF Caches
  <2> QED
    BY <1>1, <2>2, NarrowedRetains
<1>4. \A s \in Scans : s.retained \in Seq(Snapshots)
  BY DEF Scans
<1> QED
  BY <1>2, <1>3, <1>4 DEF c

-----------------------------------------------------------------------------
(* Where a call is: the lock, the kind of call, the snapshot it records *)

Allowed(kind, where) ==
  /\ where = "scanning" => kind # "append"
  /\ where = "appending" => kind \in Writers
  /\ where \in {"staging", "renaming"} => kind \in {"record", "prune"}
  /\ where = "saving" => kind = "record"

InCall(w) ==
  IF pc[w] \in Critical
    THEN /\ lock = w
         /\ request[w] \in Requests
         /\ Allowed(request[w].kind, pc[w])
         /\ mine[w] = IF request[w].kind \in Writers
                        THEN [at |-> request[w].now, id |-> recorded] ELSE None
    ELSE request[w] = NoCall /\ mine[w] = None

Phases == \A w \in Workers : InCall(w)

Base == TypeInv /\ Phases

\* While a worker holds the lock, or nobody does, the others are in no call.
LEMMA OthersOutside ==
  ASSUME Phases, NEW w \in Workers, NEW u \in Workers, u # w, lock \in {w, None},
         pc'[u] = pc[u], request'[u] = request[u], mine'[u] = mine[u]
  PROVE  InCall(u)' /\ pc[u] \notin Critical
<1>1. pc[u] \notin Critical
  BY StoreAssumption DEF Phases, InCall
<1> QED
  BY <1>1 DEF Phases, InCall

LEMMA ReturnPhases ==
  ASSUME CallType, Phases, NEW w \in Workers, NEW status, NEW window,
         pc[w] \in Critical, Return(w, status, window)
  PROVE  Phases'
<1>1. lock = w
  BY DEF Phases, InCall
<1>2. ASSUME NEW u \in Workers, u # w PROVE InCall(u)'
  <2>1. pc'[u] = pc[u] /\ request'[u] = request[u] /\ mine'[u] = mine[u]
    BY <1>2 DEF Return, Goto, CallType
  <2> QED
    BY <1>1, <1>2, <2>1, OthersOutside
<1>3. InCall(w)'
  <2>1. pc'[w] = "idle" /\ request'[w] = NoCall /\ mine'[w] = None
    BY DEF Return, Goto, CallType
  <2> QED
    BY <2>1 DEF InCall, Critical
<1> QED
  BY <1>2, <1>3 DEF Phases

LEMMA OnwardPhases ==
  ASSUME CallType, Phases, NEW w \in Workers, NEW p \in Critical,
         pc[w] \in Critical, Goto(w, p), Allowed(request[w].kind, p),
         UNCHANGED <<lock, request, mine, recorded>>
  PROVE  Phases'
<1>1. lock = w
  BY DEF Phases, InCall
<1>2. ASSUME NEW u \in Workers, u # w PROVE InCall(u)'
  <2>1. pc'[u] = pc[u]
    BY <1>2 DEF Goto, CallType
  <2> QED
    BY <1>1, <1>2, <2>1, OthersOutside
<1>3. InCall(w)'
  <2>1. pc'[w] = p
    BY DEF Goto, CallType
  <2> QED
    BY <2>1 DEF Phases, InCall
<1> QED
  BY <1>2, <1>3 DEF Phases

\* What a rewrite leaves on disk.
LEMMA KeptElements ==
  ASSUME CallType, NEW w \in Workers
  PROVE  /\ Kept(w) \in Seq(Snapshots)
         /\ Elements(Kept(w)) =
              Elements(scan[w].retained) \cup IF mine[w] = None THEN {} ELSE {mine[w]}
<1>1. scan[w].retained \in Seq(Snapshots)
  BY DEF CallType, Scans
<1>2. CASE mine[w] = None
  BY <1>1, <1>2 DEF Kept
<1>3. CASE mine[w] # None
  <2>1. mine[w] \in Snapshots
    BY <1>3 DEF CallType
  <2> QED
    BY <1>1, <1>3, <2>1, InsertedElements DEF Kept
<1> QED
  BY <1>2, <1>3

LEMMA AddedLineType ==
  ASSUME DiskType, NEW line \in Lines
  PROVE  AddLine(Contents, torn, line) \in Seq(Lines) /\ AddLine(Contents, torn, line) # <<>>
BY ContentsType, LineAddedType DEF DiskType

LEMMA MineIsSnapshot ==
  ASSUME CallType, Phases, NEW w \in Workers, pc[w] \in Critical
  PROVE  /\ request[w].kind \in Writers => mine[w] \in Snapshots /\ mine[w] # None
         /\ request[w].kind \notin Writers => mine[w] = None
<1>1. request[w] \in Requests
  BY DEF Phases, InCall
<1>2. request[w].now \in Nat /\ recorded \in Nat
  BY <1>1, RequestFields DEF CallType
<1>3. [at |-> request[w].now, id |-> recorded] \in Snapshots
  BY <1>2 DEF Snapshots
<1>4. None \notin Snapshots
  BY StoreAssumption
<1>5. mine[w] = IF request[w].kind \in Writers
                  THEN [at |-> request[w].now, id |-> recorded] ELSE None
  BY DEF Phases, InCall
<1> QED
  BY <1>3, <1>4, <1>5

-----------------------------------------------------------------------------
(* Every step keeps the types and the phases *)

LEMMA BeginBase ==
  ASSUME Base, NEW w \in Workers, Begin(w)
  PROVE  Base'
<1>1. DiskType' /\ CacheType'
  BY DEF Base, TypeInv, DiskType, CacheType, Begin, disk, Contents
<1>2. CallType'
  <2>1. pc' \in [Workers -> {"idle", "waiting"} \cup Critical]
    BY GotoType DEF Base, TypeInv, Begin
  <2> QED
    BY <2>1, SilentType DEF Base, TypeInv, CallType, Begin
<1>3. Phases'
  <2>1. ASSUME NEW u \in Workers PROVE InCall(u)'
    <3>1. pc[w] \notin Critical /\ "waiting" \notin Critical
      BY DEF Begin, Critical
    <3>2. pc'[u] = IF u = w THEN "waiting" ELSE pc[u]
      BY DEF Base, TypeInv, CallType, Begin, Goto
    <3> QED
      BY <3>1, <3>2 DEF Base, Phases, InCall, Begin
  <2> QED
    BY <2>1 DEF Phases
<1> QED
  BY <1>1, <1>2, <1>3 DEF Base, TypeInv

LEMMA GiveUpBase ==
  ASSUME Base, NEW w \in Workers, GiveUp(w)
  PROVE  Base'
<1>1. DiskType' /\ CacheType'
  BY DEF Base, TypeInv, DiskType, CacheType, GiveUp, disk, Contents
<1>2. CallType'
  <2>1. pc' \in [Workers -> {"idle", "waiting"} \cup Critical]
    BY GotoType DEF Base, TypeInv, GiveUp
  <2>2. <<>> \in Seq(Snapshots)
    OBVIOUS
  <2>3. answer' \in [to : Workers \cup {None}, status : Status, window : Seq(Snapshots)]
    BY <2>2 DEF GiveUp, Status
  <2> QED
    BY <2>1, <2>3 DEF Base, TypeInv, CallType, GiveUp
<1>3. Phases'
  <2>1. ASSUME NEW u \in Workers PROVE InCall(u)'
    <3>1. pc[w] \notin Critical /\ "idle" \notin Critical
      BY DEF GiveUp, Critical
    <3>2. pc'[u] = IF u = w THEN "idle" ELSE pc[u]
      BY DEF Base, TypeInv, CallType, GiveUp, Goto
    <3> QED
      BY <3>1, <3>2 DEF Base, Phases, InCall, GiveUp
  <2> QED
    BY <2>1 DEF Phases
<1> QED
  BY <1>1, <1>2, <1>3 DEF Base, TypeInv

LEMMA LockBase ==
  ASSUME Base, NEW w \in Workers, Lock(w)
  PROVE  Base'
<1>1. DiskType' /\ CacheType'
  BY DEF Base, TypeInv, DiskType, CacheType, Lock, disk, Contents
<1>2. PICK r \in Requests : Asks(w, r)
  BY DEF Lock
<1>3. /\ r.now \in Nat
      /\ r.kind \in {"record", "prune", "load", "append"}
  BY RequestFields
<1> DEFINE x == [at |-> r.now, id |-> recorded + 1]
           where == IF r.kind = "append" THEN "appending" ELSE "scanning"
<1>4. /\ request' = [request EXCEPT ![w] = r]
      /\ pc' = [pc EXCEPT ![w] = where]
      /\ \/ r.kind \in Writers /\ mine' = [mine EXCEPT ![w] = x] /\ recorded' = recorded + 1
         \/ r.kind \notin Writers /\ mine' = mine /\ recorded' = recorded
  BY <1>2 DEF Asks, Goto
<1>5. where \in Critical /\ Allowed(r.kind, where)
  BY <1>3 DEF Critical, Allowed, Writers
<1>6. x \in Snapshots
  BY <1>3 DEF Base, TypeInv, CallType, Snapshots
<1> HIDE DEF x, where
<1>7. CallType'
  <2>1. answer' \in [to : Workers \cup {None}, status : Status, window : Seq(Snapshots)]
    BY SilentType DEF Lock
  <2>2. pc' \in [Workers -> {"idle", "waiting"} \cup Critical] /\ request' \in [Workers -> Requests \cup {NoCall}]
    BY <1>4, <1>5 DEF Base, TypeInv, CallType
  <2>3. mine' \in [Workers -> Snapshots \cup {None}] /\ recorded' \in Nat
    BY <1>4, <1>6 DEF Base, TypeInv, CallType
  <2> QED
    BY <2>1, <2>2, <2>3 DEF Base, TypeInv, CallType, Lock
<1>8. ASSUME NEW u \in Workers, u # w PROVE InCall(u)'
  <2>1. pc'[u] = pc[u] /\ request'[u] = request[u] /\ mine'[u] = mine[u]
    BY <1>4, <1>8 DEF Base, TypeInv, CallType
  <2> QED
    BY <1>8, <2>1, OthersOutside DEF Base, Lock
<1>9. InCall(w)'
  <2>1. pc'[w] = where /\ request'[w] = r /\ lock' = w
    BY <1>4 DEF Base, TypeInv, CallType, Lock
  <2>2. mine[w] = None
    <3>1. pc[w] \notin Critical
      BY DEF Lock, Critical
    <3> QED
      BY <3>1 DEF Base, Phases, InCall
  <2>3. mine'[w] = IF r.kind \in Writers THEN [at |-> r.now, id |-> recorded'] ELSE None
    BY <1>4, <2>2 DEF Base, TypeInv, CallType, x
  <2> QED
    BY <1>5, <2>1, <2>3 DEF InCall
<1> QED
  BY <1>1, <1>7, <1>8, <1>9 DEF Base, TypeInv, Phases

\* What a return and an onward step keep, of the types.
LEMMA ReturnCallType ==
  ASSUME CallType, NEW w \in Workers, NEW status \in Status, NEW window \in Seq(Snapshots),
         Return(w, status, window), recorded' = recorded, acked' \subseteq Snapshots
  PROVE  CallType'
BY ReturnType DEF CallType

LEMMA OnwardCallType ==
  ASSUME CallType, NEW w \in Workers, NEW p \in Critical, Goto(w, p), Silently,
         UNCHANGED <<lock, request, mine, recorded, acked>>, scan' \in [Workers -> Scans]
  PROVE  CallType'
<1>1. pc' \in [Workers -> {"idle", "waiting"} \cup Critical]
  BY GotoType
<1> QED
  BY <1>1, SilentType DEF CallType

LEMMA Statuses ==
  /\ "ok" \in Status /\ "error" \in Status
  /\ \A s : Verdict(s) \in Status
  /\ <<>> \in Seq(Snapshots)
<1>1. <<>> \in Seq(Snapshots)
  OBVIOUS
<1> QED
  BY <1>1 DEF Status, Verdict

LEMMA ScanBase ==
  ASSUME Base, NEW w \in Workers, Scan(w)
  PROVE  Base'
<1> DEFINE p == ProcOf[w]
           c == Cutoff(w)
           found == IF Hit(p, c) THEN Narrowed(cache[p].scan, c) ELSE ScanOf(Contents, c)
<1>1. p \in Procs
  BY StoreAssumption
<1>2. c \in Int /\ found \in Scans /\ found.retained \in Seq(Snapshots)
  BY <1>1, CutoffIsTime, FoundType DEF Base, TypeInv
<1>3. pc[w] = "scanning" /\ pc[w] \in Critical
  BY DEF Scan, Critical
<1>4. request[w].kind # "append" /\ request[w] \in Requests
  BY <1>3 DEF Base, Phases, InCall, Allowed
<1>5. /\ UNCHANGED disk /\ recorded' = recorded /\ acked' = acked
      /\ \/ /\ cache' = [cache EXCEPT ![p] = None]
            /\ Return(w, "error", <<>>)
         \/ /\ cache' = [cache EXCEPT ![p] = IF file = None THEN None
                                              ELSE IF Hit(p, c) THEN cache[p] ELSE Cached(c, found)]
            /\ \/ Return(w, Verdict(found), found.retained)
               \/ /\ request[w].kind # "load"
                  /\ scan' = [scan EXCEPT ![w] = found]
                  /\ Goto(w, IF request[w].kind = "prune" \/ ShouldCompact(found.total, found.expired)
                               THEN "staging" ELSE "appending")
                  /\ Silently /\ UNCHANGED <<lock, request, mine>>
  BY DEF Scan
<1> HIDE DEF found, c, p
<1>6. DiskType'
  BY <1>5 DEF Base, TypeInv, DiskType, disk, Contents
<1>7. CacheType'
  <2>1. Cached(c, found) \in Caches
    BY <1>2 DEF Cached, Caches
  <2> QED
    BY <1>5, <2>1, <1>1 DEF Base, TypeInv, CacheType
<1>8. CASE \E status \in Status, window \in Seq(Snapshots) : Return(w, status, window)
  BY <1>3, <1>5, <1>6, <1>7, <1>8, ReturnCallType, ReturnPhases DEF Base, TypeInv, CallType
<1>9. ASSUME request[w].kind # "load",
             scan' = [scan EXCEPT ![w] = found],
             Goto(w, IF request[w].kind = "prune" \/ ShouldCompact(found.total, found.expired)
                       THEN "staging" ELSE "appending"),
             Silently, UNCHANGED <<lock, request, mine>>
      PROVE  Base'
  <2>1. request[w].kind \in {"record", "prune"}
    BY <1>4, <1>9, RequestFields
  <2>2. PICK q \in {"staging", "appending"} : Goto(w, q) /\ (request[w].kind = "prune" => q = "staging")
    BY <1>9
  <2>3. q \in Critical /\ Allowed(request[w].kind, q)
    BY <2>1, <2>2 DEF Critical, Allowed, Writers
  <2>4. Phases'
    BY <1>3, <1>5, <1>9, <2>2, <2>3, OnwardPhases DEF Base, TypeInv
  <2>5. scan' \in [Workers -> Scans]
    BY <1>2, <1>9 DEF Base, TypeInv, CallType
  <2>6. CallType'
    BY <1>5, <1>9, <2>2, <2>3, <2>5, OnwardCallType DEF Base, TypeInv
  <2> QED
    BY <1>6, <1>7, <2>4, <2>6 DEF Base, TypeInv
<1> QED
  BY <1>2, <1>5, <1>8, <1>9, Statuses

\* What the phases of writing have in common.
LEMMA WritingFacts ==
  ASSUME Base, NEW w \in Workers, pc[w] \in Critical, pc[w] # "scanning"
  PROVE  /\ request[w] \in Requests /\ lock = w
         /\ request[w].kind \in {"record", "prune", "append"} \/ pc[w] \in {"staging", "renaming"}
         /\ pc[w] = "appending" => request[w].kind \in {"record", "append"}
         /\ pc[w] \in {"staging", "renaming"} => request[w].kind \in {"record", "prune"}
         /\ pc[w] = "saving" => request[w].kind = "record"
         /\ pc[w] \in {"appending", "saving"} => mine[w] \in Snapshots /\ mine[w] # None
<1>1. /\ request[w] \in Requests /\ lock = w /\ Allowed(request[w].kind, pc[w])
  BY DEF Base, Phases, InCall
<1>2. request[w].kind \in {"record", "prune", "load", "append"}
  BY <1>1, RequestFields
<1>3. request[w].kind \in Writers => mine[w] \in Snapshots /\ mine[w] # None
  BY MineIsSnapshot DEF Base, TypeInv
<1> QED
  BY <1>1, <1>2, <1>3 DEF Allowed, Writers, Critical

LEMMA AppendLineBase ==
  ASSUME Base, NEW w \in Workers, AppendLine(w)
  PROVE  Base'
<1>1. pc[w] = "appending" /\ pc[w] \in Critical
  BY DEF AppendLine, Critical
<1>2. mine[w] \in Snapshots /\ request[w].kind \in {"record", "append"}
  BY <1>1, WritingFacts
<1>3. DiskType'
  <2>1. purged' = purged
    BY DEF AppendLine
  <2>2. CASE \E line \in Lines : file' = AddLine(Contents, torn, line) /\ torn' \in BOOLEAN /\ (torn' => TornWrites)
    <3>1. PICK line \in Lines : file' = AddLine(Contents, torn, line)
      BY <2>2
    <3>2. file' \in Seq(Lines) /\ file' # <<>>
      BY <3>1, AddedLineType DEF Base, TypeInv
    <3>3. Contents' = file'
      BY <3>2, StoreAssumption DEF Contents
    <3> QED
      BY <2>1, <2>2, <3>2, <3>3 DEF Base, TypeInv, DiskType
  <2>3. CASE file' = Contents /\ torn' = torn
    <3>1. Contents \in Seq(Lines)
      BY ContentsType DEF Base, TypeInv
    <3>2. Contents' = Contents
      BY <2>3, <3>1, StoreAssumption DEF Contents
    <3> QED
      BY <2>1, <2>3, <3>1, <3>2 DEF Base, TypeInv, DiskType
  <2>4. mine[w] \in Lines /\ Corrupt \in Lines
    BY <1>2 DEF Lines
  <2> QED
    BY <2>2, <2>3, <2>4 DEF AppendLine
<1>4. CacheType'
  <2>1. cache' = [Outdated EXCEPT ![ProcOf[w]] = None]
    BY DEF AppendLine
  <2> QED
    BY <2>1, OutdatedType DEF Base, TypeInv, CacheType
<1>5. recorded' = recorded /\ acked' \subseteq Snapshots
  BY <1>2 DEF AppendLine, Base, TypeInv, CallType
<1>6. CASE \E status \in Status : Return(w, status, <<>>)
  BY <1>1, <1>3, <1>4, <1>5, <1>6, Statuses, ReturnCallType, ReturnPhases DEF Base, TypeInv
<1>7. CASE /\ request[w].kind = "record" /\ Goto(w, "saving")
           /\ Silently /\ UNCHANGED <<lock, request, mine, scan, acked>>
  <2>1. "saving" \in Critical /\ Allowed(request[w].kind, "saving")
    BY <1>7 DEF Critical, Allowed
  <2>2. Phases'
    BY <1>1, <1>5, <1>7, <2>1, OnwardPhases DEF Base, TypeInv
  <2>3. CallType'
    BY <1>5, <1>7, <2>1, OnwardCallType DEF Base, TypeInv, CallType
  <2> QED
    BY <1>3, <1>4, <2>2, <2>3 DEF Base, TypeInv
<1> QED
  BY <1>6, <1>7, Statuses DEF AppendLine

LEMMA StageBase ==
  ASSUME Base, NEW w \in Workers, Stage(w)
  PROVE  Base'
<1>1. pc[w] = "staging" /\ pc[w] \in Critical
  BY DEF Stage, Critical
<1>2. DiskType' /\ CacheType'
  BY DEF Base, TypeInv, DiskType, CacheType, Stage, disk, Contents
<1>3. CASE Return(w, "error", <<>>)
  <2>1. recorded' = recorded /\ acked' \subseteq Snapshots
    BY DEF Stage, Base, TypeInv, CallType
  <2> QED
    BY <1>1, <1>2, <1>3, <2>1, Statuses, ReturnCallType, ReturnPhases DEF Base, TypeInv
<1>4. CASE Goto(w, "renaming") /\ Silently /\ UNCHANGED <<lock, request, mine, scan>>
  <2>1. request[w].kind \in {"record", "prune"}
    BY <1>1, WritingFacts
  <2>2. "renaming" \in Critical /\ Allowed(request[w].kind, "renaming")
    BY <2>1 DEF Critical, Allowed
  <2>3. recorded' = recorded /\ acked' = acked
    BY DEF Stage
  <2>4. Phases'
    BY <1>1, <1>4, <2>2, <2>3, OnwardPhases DEF Base, TypeInv
  <2>5. CallType'
    BY <1>4, <2>2, <2>3, OnwardCallType DEF Base, TypeInv, CallType
  <2> QED
    BY <1>2, <2>4, <2>5 DEF Base, TypeInv
<1> QED
  BY <1>3, <1>4 DEF Stage

LEMMA RenameBase ==
  ASSUME Base, NEW w \in Workers, Rename(w)
  PROVE  Base'
<1>1. pc[w] = "renaming" /\ pc[w] \in Critical
  BY DEF Rename, Critical
<1>2. recorded' = recorded /\ acked' = acked
  BY DEF Rename
<1>3. DiskType' /\ CacheType'
  <2>1. CASE UNCHANGED <<disk, cache>>
    BY <2>1 DEF Base, TypeInv, DiskType, CacheType, disk, Contents
  <2>2. CASE /\ file' = Kept(w)
             /\ torn' = FALSE
             /\ purged' = IF Cutoff(w) > purged THEN Cutoff(w) ELSE purged
             /\ cache' = Outdated
    <3>1. Kept(w) \in Seq(Snapshots)
      BY KeptElements DEF Base, TypeInv
    <3>2. Kept(w) \in Seq(Lines)
      BY <3>1, ReadableLines, StoreAssumption
    <3>3. Cutoff(w) \in Int
      BY CutoffIsTime DEF Base, TypeInv
    <3>4. CacheType'
      BY <2>2, OutdatedType DEF Base, TypeInv, CacheType
    <3> QED
      BY <2>2, <3>2, <3>3, <3>4 DEF Base, TypeInv, DiskType
  <2> QED
    BY <2>1, <2>2 DEF Rename
<1>4. CASE \E status \in Status : Return(w, status, <<>>)
  BY <1>1, <1>2, <1>3, <1>4, Statuses, ReturnCallType, ReturnPhases DEF Base, TypeInv, CallType
<1>5. CASE /\ request[w].kind = "record" /\ Goto(w, "saving")
           /\ Silently /\ UNCHANGED <<lock, request, mine, scan>>
  <2>1. "saving" \in Critical /\ Allowed(request[w].kind, "saving")
    BY <1>5 DEF Critical, Allowed
  <2>2. Phases'
    BY <1>1, <1>2, <1>5, <2>1, OnwardPhases DEF Base, TypeInv
  <2>3. CallType'
    BY <1>2, <1>5, <2>1, OnwardCallType DEF Base, TypeInv, CallType
  <2> QED
    BY <1>3, <2>2, <2>3 DEF Base, TypeInv
<1> QED
  BY <1>4, <1>5, Statuses DEF Rename

\* The window a record returns.
LEMMA WindowElements ==
  ASSUME CallType, NEW w \in Workers
  PROVE  LET window == NotBefore(Kept(w), request[w].now - request[w].since)
         IN  /\ window \in Seq(Snapshots)
             /\ Elements(window) = {x \in Elements(Kept(w)) : x.at >= request[w].now - request[w].since}
<1>1. request[w] \in Requests \cup {NoCall}
  BY DEF CallType
<1>2. request[w].now - request[w].since \in Int
  BY <1>1, RequestFields
<1>3. Kept(w) \in Seq(Snapshots)
  BY KeptElements
<1> QED
  BY <1>2, <1>3, Filtered

LEMMA WrittenType ==
  ASSUME CallType, NEW w \in Workers
  PROVE  Written(w) \in Scans /\ Written(w).retained = Kept(w)
<1>1. Kept(w) \in Seq(Snapshots) /\ Len(Kept(w)) \in Nat
  BY KeptElements
<1>2. scan[w].total \in Nat /\ scan[w].expired \in Nat /\ scan[w].corrupt \in SUBSET Nat
  BY DEF CallType, Scans
<1> HIDE DEF Kept
<1>3. /\ [total |-> Len(Kept(w)), expired |-> 0, retained |-> Kept(w), corrupt |-> {}] \in Scans
      /\ [total |-> scan[w].total + 1, expired |-> scan[w].expired, retained |-> Kept(w),
          corrupt |-> scan[w].corrupt] \in Scans
  BY <1>1, <1>2 DEF Scans
<1> QED
  BY <1>3 DEF Written

LEMMA SaveBase ==
  ASSUME Base, NEW w \in Workers, Save(w)
  PROVE  Base'
<1>1. pc[w] = "saving" /\ pc[w] \in Critical
  BY DEF Save, Critical
<1>2. recorded' = recorded /\ acked' \subseteq Snapshots
  <2>1. mine[w] \in Snapshots
    BY <1>1, WritingFacts
  <2> QED
    BY <2>1 DEF Save, Base, TypeInv, CallType
<1>3. DiskType'
  BY DEF Base, TypeInv, DiskType, Save, disk, Contents
<1>4. CacheType'
  <2>1. Cached(Cutoff(w), Written(w)) \in Caches
    BY WrittenType, CutoffIsTime DEF Cached, Caches, Base, TypeInv
  <2>2. cache' = [cache EXCEPT ![ProcOf[w]] = Cached(Cutoff(w), Written(w))]
    BY DEF Save
  <2> QED
    BY <2>1, <2>2 DEF Base, TypeInv, CacheType
<1>5. Verdict(scan[w]) \in Status /\ NotBefore(Kept(w), request[w].now - request[w].since) \in Seq(Snapshots)
  BY Statuses, WindowElements DEF Base, TypeInv
<1>6. Return(w, Verdict(scan[w]), NotBefore(Kept(w), request[w].now - request[w].since))
  BY DEF Save
<1> QED
  BY <1>1, <1>2, <1>3, <1>4, <1>5, <1>6, ReturnCallType, ReturnPhases DEF Base, TypeInv

LEMMA EvictBase ==
  ASSUME Base, NEW p \in Procs, Evict(p)
  PROVE  Base'
<1>1. DiskType'
  BY DEF Base, TypeInv, DiskType, Evict, disk, Contents
<1>2. CacheType'
  BY DEF Base, TypeInv, CacheType, Evict
<1>3. CallType'
  BY SilentType DEF Base, TypeInv, CallType, Evict, working
<1>4. Phases'
  BY DEF Base, Phases, InCall, Evict, working
<1> QED
  BY <1>1, <1>2, <1>3, <1>4 DEF Base, TypeInv

LEMMA CrashBase ==
  ASSUME Base, NEW p \in Procs, Crash(p)
  PROVE  Base'
<1> DEFINE dead == {w \in Workers : ProcOf[w] = p}
<1>1. DiskType'
  BY DEF Base, TypeInv, DiskType, Crash, disk, Contents
<1>2. CacheType'
  BY DEF Base, TypeInv, CacheType, Crash
<1>3. /\ lock' = IF lock \in dead THEN None ELSE lock
      /\ pc' = [w \in Workers |-> IF w \in dead THEN "idle" ELSE pc[w]]
      /\ request' = [w \in Workers |-> IF w \in dead THEN NoCall ELSE request[w]]
      /\ mine' = [w \in Workers |-> IF w \in dead THEN None ELSE mine[w]]
      /\ scan' = [w \in Workers |-> IF w \in dead THEN NoScan ELSE scan[w]]
      /\ Silently /\ recorded' = recorded /\ acked' = acked
  BY DEF Crash
<1> HIDE DEF dead
<1>4. CallType'
  <2>1. answer' \in [to : Workers \cup {None}, status : Status, window : Seq(Snapshots)]
    BY <1>3, SilentType
  <2>2. scan' \in [Workers -> Scans]
    BY <1>3, NoScanIsScan DEF Base, TypeInv, CallType
  <2> QED
    BY <1>3, <2>1, <2>2 DEF Base, TypeInv, CallType
<1>5. ASSUME NEW u \in Workers PROVE InCall(u)'
  <2>1. CASE u \in dead
    BY <1>3, <2>1 DEF InCall, Critical
  <2>2. CASE u \notin dead
    <3>1. /\ pc'[u] = pc[u] /\ request'[u] = request[u] /\ mine'[u] = mine[u]
          /\ lock = u => lock' = u
      BY <1>3, <2>2
    <3> QED
      BY <1>3, <3>1 DEF Base, Phases, InCall
  <2> QED
    BY <2>1, <2>2
<1> QED
  BY <1>1, <1>2, <1>4, <1>5 DEF Base, TypeInv, Phases

LEMMA InitBase == Init => Base
<1> SUFFICES ASSUME Init PROVE Base
  OBVIOUS
<1>1. file \in Seq(Lines) \cup {None}
  BY StoreAssumption DEF Init
<1>2. Contents \in Seq(Lines)
  <2>1. <<>> \in Seq(Lines)
    OBVIOUS
  <2> QED
    BY <1>1, <2>1 DEF Contents
<1>3. DiskType
  <2>1. torn = FALSE /\ purged = -1
    BY DEF Init
  <2>2. torn \in BOOLEAN /\ ~torn
    BY <2>1, Zenon
  <2>3. purged \in Int
    BY <2>1
  <2> QED
    BY <1>1, <2>2, <2>3, Zenon DEF DiskType
<1>4. CallType
  <2>1. Readable(Contents) \subseteq Snapshots /\ Len(Contents) \in Nat
    BY <1>2, ReadableLines, StoreAssumption
  <2>2. <<>> \in Seq(Snapshots)
    OBVIOUS
  <2>3. answer \in [to : Workers \cup {None}, status : Status, window : Seq(Snapshots)]
    BY <2>2 DEF Init, NoAnswer, Status
  <2> QED
    BY <2>1, <2>3, NoScanIsScan DEF Init, CallType
<1>5. CacheType
  BY DEF Init, CacheType
<1>6. Phases
  BY DEF Init, Phases, InCall, Critical
<1> QED
  BY <1>3, <1>4, <1>5, <1>6 DEF Base, TypeInv

LEMMA NextBase == Base /\ [Next]_vars => Base'
<1> SUFFICES ASSUME Base, [Next]_vars PROVE Base'
  OBVIOUS
<1>1. CASE UNCHANGED vars
  BY <1>1 DEF Base, TypeInv, DiskType, CallType, CacheType, Phases, InCall, Contents,
             vars, disk, working
<1>2. CASE \E w \in Workers : Begin(w) \/ Proceed(w)
  BY <1>2, BeginBase, LockBase, GiveUpBase, ScanBase, AppendLineBase, StageBase, RenameBase,
     SaveBase DEF Proceed
<1>3. CASE \E p \in Procs : Evict(p) \/ Crash(p)
  BY <1>3, EvictBase, CrashBase
<1> QED
  BY <1>1, <1>2, <1>3 DEF Next

LEMMA AlwaysBase == Spec => []Base
BY InitBase, NextBase, PTL DEF Spec

LEMMA BaseImplies == Base => TypeOK /\ MutualExclusion
<1> SUFFICES ASSUME Base PROVE TypeOK /\ MutualExclusion
  OBVIOUS
<1>1. \A p \in Procs : cache[p] = None \/
        (cache[p].cutoff \in Int /\ cache[p].current \in BOOLEAN /\ cache[p].scan \in Scans)
  BY DEF Base, TypeInv, CacheType, Caches
<1>2. TypeOK
  BY <1>1 DEF Base, TypeInv, DiskType, CallType, TypeOK, Status
<1>3. MutualExclusion
  BY DEF Base, Phases, InCall, MutualExclusion
<1> QED
  BY <1>2, <1>3

\* Every file the store writes and every scan, answer and cached scan it works
\* with is well formed, whatever is on disk at the start, with crashes, failing
\* file operations and torn lines: sorting, narrowing and inserting always yield
\* sequences of snapshots, and no count goes below zero.
THEOREM StoreTypes == Spec => []TypeOK
BY AlwaysBase, BaseImplies, PTL

\* At most one worker of all processes is between taking the lock and releasing
\* it, however many die while they hold it or wait for it.
THEOREM Exclusive == Spec => []MutualExclusion
BY AlwaysBase, BaseImplies, PTL

-----------------------------------------------------------------------------
(* What a call knows of the file, and what the caches know of it *)

\* What a rewrite of w must keep.
Fresh(w) == {x \in Readable(Contents) : x.at > Cutoff(w)}

Numbered == \A x \in Readable(Contents) : x.id <= recorded

\* The snapshot to record is not stored before it is written; what was scanned
\* is still what the file holds.
Knows(w) ==
  /\ request[w].kind \in Writers /\ pc[w] # "saving" =>
       \A x \in Readable(Contents) : x.id < recorded
  /\ pc[w] \in {"staging", "renaming"} \/ (pc[w] = "appending" /\ request[w].kind = "record") =>
       Elements(scan[w].retained) = Fresh(w)
  /\ pc[w] = "saving" =>
       /\ mine[w] \in Readable(Contents)
       /\ Elements(scan[w].retained) \cup {mine[w]} = Fresh(w) \cup {mine[w]}

CallersKnow == \A w \in Workers : pc[w] \in Critical => Knows(w)

CachesKnow ==
  \A p \in Procs : cache[p] # None /\ cache[p].current =>
    \A x \in Snapshots : x.at > cache[p].cutoff =>
      (x \in Elements(cache[p].scan.retained) <=> x \in Readable(Contents))

Intact == Numbered /\ CallersKnow /\ CachesKnow /\ AckedStaysReadable

LEMMA ReadableIsSnapshots ==
  ASSUME DiskType
  PROVE  Readable(Contents) \subseteq Snapshots
BY ContentsType, ReadableLines, StoreAssumption

LEMMA NotTorn ==
  ASSUME Base, ~TornWrites
  PROVE  torn = FALSE
<1>1. torn \in BOOLEAN /\ ~torn
  BY DEF Base, TypeInv, DiskType
<1> QED
  BY <1>1, Zenon

\* Whatever the holder of the lock does, the others know as much as before.
LEMMA OthersKnow ==
  ASSUME Base, NEW w \in Workers, lock \in {w, None},
         \A u \in Workers : u # w => pc'[u] = pc[u],
         pc'[w] \in Critical => Knows(w)'
  PROVE  CallersKnow'
<1>1. ASSUME NEW u \in Workers, u # w PROVE pc'[u] \notin Critical
  BY <1>1, StoreAssumption DEF Base, Phases, InCall
<1> QED
  BY <1>1 DEF CallersKnow

LEMMA ReturnKnows ==
  ASSUME Base, NEW w \in Workers, NEW status, NEW window, pc[w] \in Critical, Return(w, status, window)
  PROVE  CallersKnow'
<1>1. lock = w
  BY DEF Base, Phases, InCall
<1>2. pc'[w] = "idle" /\ \A u \in Workers : u # w => pc'[u] = pc[u]
  BY DEF Base, TypeInv, CallType, Return, Goto
<1> QED
  BY <1>1, <1>2, OthersKnow DEF Critical

LEMMA FoundElements ==
  ASSUME Base, CachesKnow, NEW w \in Workers, NEW p \in Procs
  PROVE  LET c == Cutoff(w)
             found == IF Hit(p, c) THEN Narrowed(cache[p].scan, c) ELSE ScanOf(Contents, c)
         IN  Elements(found.retained) = Fresh(w)
<1> DEFINE c == Cutoff(w)
<1>1. c \in Int
  BY CutoffIsTime DEF Base, TypeInv
<1> HIDE DEF c
<1>2. Fresh(w) = {x \in Readable(Contents) : x.at > c}
  BY DEF Fresh, c
<1>3. Elements(ScanOf(Contents, c).retained) = Fresh(w)
  BY <1>1, <1>2, ContentsType, ScanRetains, StoreAssumption DEF Base, TypeInv
<1>4. ASSUME Hit(p, c) PROVE Elements(Narrowed(cache[p].scan, c).retained) = Fresh(w)
  <2>1. cache[p] \in Caches /\ cache[p] # None /\ cache[p].current /\ c >= cache[p].cutoff
    BY <1>4 DEF Base, TypeInv, CacheType, Hit
  <2>2. cache[p].scan \in Scans /\ cache[p].cutoff \in Int
    BY <2>1 DEF Caches
  <2>3. Elements(Narrowed(cache[p].scan, c).retained) = {x \in Elements(cache[p].scan.retained) : x.at > c}
    BY <1>1, <2>2, NarrowedRetains
  <2>4. Elements(cache[p].scan.retained) \subseteq Snapshots
    BY <2>2 DEF Elements, Scans
  <2>5. Readable(Contents) \subseteq Snapshots
    BY ReadableIsSnapshots DEF Base, TypeInv
  <2>6. \A x \in Snapshots : x.at \in Nat
    BY DEF Snapshots
  <2>7. \A x \in Snapshots : x.at > c =>
          (x \in Elements(cache[p].scan.retained) <=> x \in Readable(Contents))
    BY <1>1, <2>1, <2>2, <2>6 DEF CachesKnow
  <2> QED
    BY <1>2, <2>3, <2>4, <2>5, <2>7
<1> QED
  BY <1>3, <1>4 DEF c

-----------------------------------------------------------------------------
(* What a step does to the snapshots stored *)

LEMMA AppendLineStores ==
  ASSUME Base, ~TornWrites, NEW w \in Workers, AppendLine(w)
  PROVE  \/ Readable(Contents)' = Readable(Contents) \cup {mine[w]}
         \/ /\ Readable(Contents)' = Readable(Contents)
            /\ Return(w, "error", <<>>) /\ acked' = acked
<1>1. pc[w] = "appending" /\ pc[w] \in Critical
  BY DEF AppendLine, Critical
<1>2. mine[w] \in Snapshots
  BY <1>1, WritingFacts
<1>3. Contents \in Seq(Lines)
  BY ContentsType DEF Base, TypeInv
<1>4. CASE file' = AddLine(Contents, torn, mine[w])
  <2>1. /\ AddLine(Contents, FALSE, mine[w]) \in Seq(Lines)
        /\ Readable(AddLine(Contents, FALSE, mine[w])) = Readable(Contents) \cup {mine[w]}
    BY <1>2, <1>3, LineAdded, StoreAssumption
  <2>2. file' = AddLine(Contents, FALSE, mine[w])
    BY <1>4, NotTorn
  <2>3. Contents' = file'
    BY <2>1, <2>2, StoreAssumption DEF Contents
  <2> QED
    BY <2>1, <2>2, <2>3
<1>5. CASE file' = Contents /\ Return(w, "error", <<>>) /\ acked' = acked
  <2>1. Contents' = Contents
    BY <1>3, <1>5, StoreAssumption DEF Contents
  <2> QED
    BY <1>5, <2>1
<1> QED
  BY <1>4, <1>5 DEF AppendLine

LEMMA RenameStores ==
  ASSUME Base, Intact, NEW w \in Workers, Rename(w)
  PROVE  \/ Readable(Contents)' = Fresh(w) \cup IF mine[w] = None THEN {} ELSE {mine[w]}
         \/ /\ Readable(Contents)' = Readable(Contents)
            /\ Return(w, "error", <<>>) /\ UNCHANGED <<disk, cache>>
<1>1. pc[w] = "renaming" /\ pc[w] \in Critical
  BY DEF Rename, Critical
<1>2. Elements(scan[w].retained) = Fresh(w)
  BY <1>1 DEF Intact, CallersKnow, Knows
<1>3. CASE file' = Kept(w)
  <2>1. /\ Kept(w) \in Seq(Snapshots)
        /\ Elements(Kept(w)) = Elements(scan[w].retained) \cup IF mine[w] = None THEN {} ELSE {mine[w]}
    BY KeptElements DEF Base, TypeInv
  <2>2. Kept(w) \in Seq(Lines) /\ Readable(Kept(w)) = Elements(Kept(w))
    BY <2>1, ReadableLines, StoreAssumption
  <2>3. Contents' = file'
    BY <1>3, <2>2, StoreAssumption DEF Contents
  <2> QED
    BY <1>2, <1>3, <2>1, <2>2, <2>3
<1>4. CASE Return(w, "error", <<>>) /\ UNCHANGED <<disk, cache>>
  <2>1. Contents' = Contents
    BY <1>4 DEF Contents, disk
  <2> QED
    BY <1>4, <2>1
<1> QED
  BY <1>3, <1>4 DEF Rename

-----------------------------------------------------------------------------
(* Every step keeps them *)

\* Steps that leave disk, caches and reports alone.
LEMMA ElsewhereIntact ==
  ASSUME Base, Intact, UNCHANGED <<disk, acked>>, recorded' = recorded, CachesKnow', CallersKnow'
  PROVE  Intact'
<1>1. Contents' = Contents
  BY DEF disk, Contents
<1>2. Numbered'
  BY <1>1 DEF Intact, Numbered
<1>3. AckedStaysReadable'
  BY <1>1 DEF Intact, AckedStaysReadable, disk
<1> QED
  BY <1>2, <1>3 DEF Intact

LEMMA CachesKept ==
  ASSUME Intact, UNCHANGED <<disk, cache>>
  PROVE  CachesKnow'
<1>1. Contents' = Contents
  BY DEF disk, Contents
<1> QED
  BY <1>1 DEF Intact, CachesKnow

LEMMA BeginIntact ==
  ASSUME Base, Intact, NEW w \in Workers, Begin(w) \/ GiveUp(w)
  PROVE  Intact'
<1>1. UNCHANGED <<disk, cache, acked, request, mine, scan, recorded, file>>
  BY DEF Begin, GiveUp, disk
<1>2. \A u \in Workers : pc'[u] = pc[u] \/ pc'[u] \notin Critical
  BY DEF Begin, GiveUp, Goto, Base, TypeInv, CallType, Critical
<1>3. CallersKnow'
  <2>1. ASSUME NEW u \in Workers, pc'[u] \in Critical PROVE Knows(u)'
    <3>1. pc'[u] = pc[u] /\ Knows(u)
      BY <1>2, <2>1 DEF Intact, CallersKnow
    <3> QED
      BY <1>1, <3>1 DEF Knows, Fresh, Cutoff, Contents
  <2> QED
    BY <2>1 DEF CallersKnow
<1>4. CachesKnow'
  BY <1>1, CachesKept
<1> QED
  BY <1>1, <1>3, <1>4, ElsewhereIntact

LEMMA LockIntact ==
  ASSUME Base, Intact, NEW w \in Workers, Lock(w)
  PROVE  Intact'
<1>1. UNCHANGED <<disk, cache, acked, scan>> /\ Contents' = Contents
  BY DEF Lock, disk, Contents
<1>2. PICK r \in Requests : Asks(w, r)
  BY DEF Lock
<1>3. /\ request'[w] = r
      /\ pc'[w] = IF r.kind = "append" THEN "appending" ELSE "scanning"
      /\ \A u \in Workers : u # w => pc'[u] = pc[u]
      /\ \/ r.kind \in Writers /\ recorded' = recorded + 1
         \/ r.kind \notin Writers /\ recorded' = recorded
  BY <1>2 DEF Asks, Goto, Base, TypeInv, CallType
<1>4. recorded \in Nat
  BY DEF Base, TypeInv, CallType
<1>5. \A x \in Readable(Contents) : x.id \in Nat /\ x.id <= recorded
  <2>1. \A x \in Readable(Contents) : x \in Snapshots
    BY ReadableIsSnapshots DEF Base, TypeInv
  <2> QED
    BY <2>1 DEF Intact, Numbered, Snapshots
<1>6. Numbered'
  BY <1>1, <1>3, <1>4, <1>5 DEF Numbered
<1>7. Knows(w)'
  BY <1>1, <1>3, <1>4, <1>5 DEF Knows, Writers
<1>8. CallersKnow'
  BY <1>3, <1>7, OthersKnow DEF Lock
<1>9. CachesKnow'
  BY <1>1, CachesKept
<1>10. AckedStaysReadable'
  BY <1>1 DEF Intact, AckedStaysReadable, disk
<1> QED
  BY <1>6, <1>8, <1>9, <1>10 DEF Intact

LEMMA ScanIntact ==
  ASSUME Base, Intact, NEW w \in Workers, Scan(w)
  PROVE  Intact'
<1> DEFINE p == ProcOf[w]
           c == Cutoff(w)
           found == IF Hit(p, c) THEN Narrowed(cache[p].scan, c) ELSE ScanOf(Contents, c)
<1>1. p \in Procs
  BY StoreAssumption
<1>2. Elements(found.retained) = Fresh(w)
  BY <1>1, FoundElements DEF Intact
<1>3. pc[w] = "scanning" /\ pc[w] \in Critical
  BY DEF Scan, Critical
<1>4. /\ UNCHANGED disk /\ recorded' = recorded /\ acked' = acked
      /\ \/ /\ cache' = [cache EXCEPT ![p] = None]
            /\ Return(w, "error", <<>>)
         \/ /\ cache' = [cache EXCEPT ![p] = IF file = None THEN None
                                              ELSE IF Hit(p, c) THEN cache[p] ELSE Cached(c, found)]
            /\ \/ Return(w, Verdict(found), found.retained)
               \/ /\ scan' = [scan EXCEPT ![w] = found]
                  /\ \E q \in {"staging", "appending"} : Goto(w, q)
                  /\ UNCHANGED <<lock, request, mine>>
  BY DEF Scan
<1>5. Contents' = Contents
  BY <1>4 DEF disk, Contents
<1>6. Fresh(w) = {x \in Readable(Contents) : x.at > c}
  BY DEF Fresh
<1> HIDE DEF found, c, p
<1>7. CachesKnow'
  <2>1. ASSUME NEW q \in Procs, cache'[q] # None, cache'[q].current
        PROVE  \A x \in Snapshots : x.at > cache'[q].cutoff =>
                 (x \in Elements(cache'[q].scan.retained) <=> x \in Readable(Contents))
    <3>1. cache'[q] = cache[q] \/ cache'[q] = Cached(c, found)
      BY <1>1, <1>4, <2>1 DEF Base, TypeInv, CacheType
    <3>2. CASE cache'[q] = cache[q]
      BY <2>1, <3>2 DEF Intact, CachesKnow
    <3>3. CASE cache'[q] = Cached(c, found)
      <4>1. cache'[q].cutoff = c /\ cache'[q].scan = found
        BY <3>3 DEF Cached
      <4> QED
        BY <4>1, <1>2, <1>6
    <3> QED
      BY <3>1, <3>2, <3>3
  <2> QED
    BY <1>5, <2>1 DEF CachesKnow
<1>8. CASE \E status, window : Return(w, status, window)
  BY <1>3, <1>4, <1>7, <1>8, ReturnKnows, ElsewhereIntact
<1>9. ASSUME scan' = [scan EXCEPT ![w] = found],
             NEW q \in {"staging", "appending"}, Goto(w, q),
             UNCHANGED <<lock, request, mine>>
      PROVE  Intact'
  <2>1. scan'[w] = found /\ pc'[w] = q /\ \A u \in Workers : u # w => pc'[u] = pc[u]
    BY <1>9 DEF Goto, Base, TypeInv, CallType
  <2>2. Fresh(w)' = Fresh(w)
    BY <1>5, <1>9 DEF Fresh, Cutoff
  <2>3. Knows(w)
    BY <1>3 DEF Intact, CallersKnow
  <2>4. Knows(w)'
    <3>1. q # "saving" /\ pc[w] # "saving"
      BY <1>3
    <3> QED
      BY <1>2, <1>4, <1>5, <1>9, <2>1, <2>2, <2>3, <3>1 DEF Knows
  <2>5. CallersKnow'
    <3>1. lock = w
      BY <1>3 DEF Base, Phases, InCall
    <3> QED
      BY <2>1, <2>4, <3>1, OthersKnow
  <2> QED
    BY <1>4, <1>7, <2>5, ElsewhereIntact
<1> QED
  BY <1>4, <1>8, <1>9

LEMMA AppendLineIntact ==
  ASSUME Base, Intact, ~TornWrites, NEW w \in Workers, AppendLine(w)
  PROVE  Intact'
<1>1. pc[w] = "appending" /\ pc[w] \in Critical /\ lock = w
  BY DEF AppendLine, Critical, Base, Phases, InCall
<1>2. /\ mine[w] \in Snapshots /\ mine[w].id = recorded
      /\ request[w].kind \in Writers
  <2>1. mine[w] \in Snapshots /\ request[w].kind \in Writers
    BY <1>1, WritingFacts DEF Writers
  <2>2. mine[w] = [at |-> request[w].now, id |-> recorded]
    BY <1>1, <2>1 DEF Base, Phases, InCall
  <2> QED
    BY <2>1, <2>2
<1>3. /\ recorded' = recorded /\ purged' = purged
      /\ acked' \subseteq acked \cup {mine[w]}
  BY DEF AppendLine
<1>4. \/ Readable(Contents)' = Readable(Contents) \cup {mine[w]}
      \/ /\ Readable(Contents)' = Readable(Contents)
         /\ Return(w, "error", <<>>) /\ acked' = acked
  BY AppendLineStores
<1>5. Numbered'
  <2>1. recorded \in Nat
    BY DEF Base, TypeInv, CallType
  <2> QED
    BY <1>2, <1>3, <1>4, <2>1 DEF Intact, Numbered
<1>6. AckedStaysReadable'
  BY <1>3, <1>4 DEF Intact, AckedStaysReadable
<1>7. CachesKnow'
  <2>1. cache' = [Outdated EXCEPT ![ProcOf[w]] = None]
    BY DEF AppendLine
  <2>2. ASSUME NEW p \in Procs, cache'[p] # None PROVE ~cache'[p].current
    <3>1. cache'[p] = [cache[p] EXCEPT !.current = FALSE] /\ cache[p] # None
      BY <2>1, <2>2 DEF Outdated
    <3>2. cache[p] \in Caches
      BY <3>1 DEF Base, TypeInv, CacheType
    <3> QED
      BY <3>1, <3>2 DEF Caches
  <2> QED
    BY <2>2 DEF CachesKnow
<1>8. CallersKnow'
  <2>1. CASE \E status, window : Return(w, status, window)
    BY <1>1, <2>1, ReturnKnows
  <2>2. CASE /\ request[w].kind = "record" /\ Goto(w, "saving")
             /\ UNCHANGED <<lock, request, mine, scan>>
             /\ Readable(Contents)' = Readable(Contents) \cup {mine[w]}
    <3>1. pc'[w] = "saving" /\ \A u \in Workers : u # w => pc'[u] = pc[u]
      BY <2>2 DEF Goto, Base, TypeInv, CallType
    <3>2. Elements(scan[w].retained) = Fresh(w)
      BY <1>1, <2>2 DEF Intact, CallersKnow, Knows
    <3>3. Fresh(w)' \cup {mine[w]} = Fresh(w) \cup {mine[w]}
      BY <2>2 DEF Fresh, Cutoff
    <3>4. Knows(w)'
      BY <2>2, <3>1, <3>2, <3>3 DEF Knows
    <3> QED
      BY <1>1, <3>1, <3>4, OthersKnow
  <2> QED
    BY <1>4, <2>1, <2>2 DEF AppendLine
<1> QED
  BY <1>5, <1>6, <1>7, <1>8 DEF Intact

LEMMA StageIntact ==
  ASSUME Base, Intact, NEW w \in Workers, Stage(w)
  PROVE  Intact'
<1>1. pc[w] = "staging" /\ pc[w] \in Critical /\ lock = w
  BY DEF Stage, Critical, Base, Phases, InCall
<1>2. /\ UNCHANGED <<disk, acked>> /\ recorded' = recorded
      /\ cache' = [cache EXCEPT ![ProcOf[w]] = None]
  BY DEF Stage
<1>3. Contents' = Contents
  BY <1>2 DEF disk, Contents
<1>4. CachesKnow'
  BY <1>2, <1>3 DEF Intact, CachesKnow, Base, TypeInv, CacheType
<1>5. CASE Return(w, "error", <<>>)
  BY <1>1, <1>2, <1>4, <1>5, ReturnKnows, ElsewhereIntact
<1>6. CASE Goto(w, "renaming") /\ UNCHANGED <<lock, request, mine, scan>>
  <2>1. pc'[w] = "renaming" /\ \A u \in Workers : u # w => pc'[u] = pc[u]
    BY <1>6 DEF Goto, Base, TypeInv, CallType
  <2>2. Knows(w)
    BY <1>1 DEF Intact, CallersKnow
  <2>3. Knows(w)'
    BY <1>1, <1>2, <1>3, <1>6, <2>1, <2>2 DEF Knows, Fresh, Cutoff
  <2>4. CallersKnow'
    BY <1>1, <2>1, <2>3, OthersKnow
  <2> QED
    BY <1>2, <1>4, <2>4, ElsewhereIntact
<1> QED
  BY <1>5, <1>6 DEF Stage

LEMMA RenameIntact ==
  ASSUME Base, Intact, NEW w \in Workers, Rename(w)
  PROVE  Intact'
<1>1. pc[w] = "renaming" /\ pc[w] \in Critical /\ lock = w
  BY DEF Rename, Critical, Base, Phases, InCall
<1>2. recorded' = recorded /\ acked' = acked
  BY DEF Rename
<1>3. CASE Return(w, "error", <<>>) /\ UNCHANGED <<disk, cache>>
  BY <1>1, <1>2, <1>3, CachesKept, ReturnKnows, ElsewhereIntact
<1>4. CASE /\ file' = Kept(w)
           /\ purged' = IF Cutoff(w) > purged THEN Cutoff(w) ELSE purged
           /\ cache' = Outdated
           /\ \/ request[w].kind = "record" /\ Goto(w, "saving")
                 /\ UNCHANGED <<lock, request, mine, scan>>
              \/ \E status : Return(w, status, <<>>)
           /\ Readable(Contents)' = Fresh(w) \cup IF mine[w] = None THEN {} ELSE {mine[w]}
  <2>1. /\ Readable(Contents) \subseteq Snapshots /\ Cutoff(w) \in Int /\ purged \in Int
        /\ recorded \in Nat /\ acked \subseteq Snapshots
    BY ReadableIsSnapshots, CutoffIsTime DEF Base, TypeInv, DiskType, CallType
  <2>2. \A x \in Snapshots : x.at \in Nat /\ x.id \in Nat
    BY DEF Snapshots
  <2>3. mine[w] # None => mine[w] \in Snapshots /\ mine[w].id = recorded
    <3>1. mine[w] = IF request[w].kind \in Writers
                      THEN [at |-> request[w].now, id |-> recorded] ELSE None
      BY <1>1 DEF Base, Phases, InCall
    <3> QED
      BY <3>1 DEF Base, TypeInv, CallType
  <2>4. Numbered'
    <3>1. \A x \in Fresh(w) : x.id <= recorded
      BY DEF Intact, Numbered, Fresh
    <3> QED
      BY <1>2, <1>4, <2>1, <2>2, <2>3, <3>1 DEF Numbered
  <2>5. AckedStaysReadable'
    <3>1. ASSUME NEW x \in acked PROVE x \in Readable(Contents)' \/ x.at <= purged'
      <4>1. x.at \in Nat
        BY <2>1, <2>2
      <4>2. CASE x.at > Cutoff(w) /\ x \in Readable(Contents)
        BY <1>4, <4>2 DEF Fresh
      <4>3. CASE x.at <= Cutoff(w) \/ x.at <= purged
        BY <1>4, <2>1, <4>1, <4>3
      <4> QED
        BY <2>1, <4>1, <4>2, <4>3 DEF Intact, AckedStaysReadable
    <3> QED
      BY <1>2, <3>1 DEF AckedStaysReadable
  <2>6. CachesKnow'
    <3>1. ASSUME NEW p \in Procs, cache'[p] # None PROVE ~cache'[p].current
      <4>1. cache'[p] = [cache[p] EXCEPT !.current = FALSE] /\ cache[p] # None
        BY <1>4, <3>1 DEF Outdated
      <4>2. cache[p] \in Caches
        BY <4>1 DEF Base, TypeInv, CacheType
      <4> QED
        BY <4>1, <4>2 DEF Caches
    <3> QED
      BY <3>1 DEF CachesKnow
  <2>7. CallersKnow'
    <3>1. CASE \E status : Return(w, status, <<>>)
      BY <1>1, <3>1, ReturnKnows
    <3>2. CASE /\ request[w].kind = "record" /\ Goto(w, "saving")
               /\ UNCHANGED <<lock, request, mine, scan>>
      <4>1. pc'[w] = "saving" /\ \A u \in Workers : u # w => pc'[u] = pc[u]
        BY <3>2 DEF Goto, Base, TypeInv, CallType
      <4>2. Elements(scan[w].retained) = Fresh(w)
        BY <1>1 DEF Intact, CallersKnow, Knows
      <4>3. mine[w] # None
        BY <1>1, <3>2, MineIsSnapshot DEF Base, TypeInv, Writers
      <4>4. Readable(Contents)' = Fresh(w) \cup {mine[w]}
        BY <1>4, <4>3
      <4>5. Fresh(w)' \cup {mine[w]} = Fresh(w) \cup {mine[w]}
        BY <3>2, <4>4 DEF Fresh, Cutoff
      <4>6. Knows(w)'
        BY <3>2, <4>1, <4>2, <4>4, <4>5 DEF Knows
      <4> QED
        BY <1>1, <4>1, <4>6, OthersKnow
    <3> QED
      BY <1>4, <3>1, <3>2
  <2> QED
    BY <2>4, <2>5, <2>6, <2>7 DEF Intact
<1> QED
  BY <1>3, <1>4, RenameStores DEF Rename

LEMMA SaveIntact ==
  ASSUME Base, Intact, NEW w \in Workers, Save(w)
  PROVE  Intact'
<1>1. pc[w] = "saving" /\ pc[w] \in Critical /\ lock = w
  BY DEF Save, Critical, Base, Phases, InCall
<1>2. /\ UNCHANGED disk /\ recorded' = recorded /\ acked' = acked \cup {mine[w]}
      /\ cache' = [cache EXCEPT ![ProcOf[w]] = Cached(Cutoff(w), Written(w))]
  BY DEF Save
<1>3. Contents' = Contents
  BY <1>2 DEF disk, Contents
<1>4. /\ mine[w] # None /\ mine[w] \in Readable(Contents)
      /\ Elements(scan[w].retained) \cup {mine[w]} = Fresh(w) \cup {mine[w]}
  BY <1>1, WritingFacts DEF Intact, CallersKnow, Knows
<1>5. Elements(Written(w).retained) = Fresh(w) \cup {mine[w]}
  BY <1>4, KeptElements, WrittenType DEF Base, TypeInv
<1>6. CachesKnow'
  <2>1. ASSUME NEW p \in Procs, cache'[p] # None, cache'[p].current
        PROVE  \A x \in Snapshots : x.at > cache'[p].cutoff =>
                 (x \in Elements(cache'[p].scan.retained) <=> x \in Readable(Contents))
    <3>1. cache'[p] = cache[p] \/ cache'[p] = Cached(Cutoff(w), Written(w))
      BY <1>2, <2>1 DEF Base, TypeInv, CacheType
    <3>2. CASE cache'[p] = cache[p]
      BY <2>1, <3>2 DEF Intact, CachesKnow
    <3>3. CASE cache'[p] = Cached(Cutoff(w), Written(w))
      <4>1. cache'[p].cutoff = Cutoff(w) /\ cache'[p].scan = Written(w)
        BY <3>3 DEF Cached
      <4> QED
        BY <1>4, <1>5, <4>1 DEF Fresh
    <3> QED
      BY <3>1, <3>2, <3>3
  <2> QED
    BY <1>3, <2>1 DEF CachesKnow
<1>7. CallersKnow'
  BY <1>1, ReturnKnows DEF Save
<1>8. Numbered' /\ AckedStaysReadable'
  <2>1. Numbered'
    BY <1>2, <1>3 DEF Intact, Numbered
  <2>2. AckedStaysReadable'
    BY <1>2, <1>3, <1>4 DEF Intact, AckedStaysReadable, disk
  <2> QED
    BY <2>1, <2>2
<1> QED
  BY <1>6, <1>7, <1>8 DEF Intact

LEMMA EvictIntact ==
  ASSUME Base, Intact, NEW p \in Procs, Evict(p)
  PROVE  Intact'
<1>1. UNCHANGED <<disk, acked, working>> /\ cache' = [cache EXCEPT ![p] = None]
  BY DEF Evict
<1>2. Contents' = Contents
  BY <1>1 DEF disk, Contents
<1>3. CachesKnow'
  BY <1>1, <1>2 DEF Intact, CachesKnow, Base, TypeInv, CacheType
<1>4. CallersKnow'
  BY <1>1, <1>2 DEF Intact, CallersKnow, Knows, Fresh, Cutoff, working
<1> QED
  BY <1>1, <1>3, <1>4, ElsewhereIntact DEF working

LEMMA CrashIntact ==
  ASSUME Base, Intact, NEW p \in Procs, Crash(p)
  PROVE  Intact'
<1>1. /\ UNCHANGED <<disk, acked>> /\ recorded' = recorded
      /\ cache' = [cache EXCEPT ![p] = None]
  BY DEF Crash
<1>2. Contents' = Contents
  BY <1>1 DEF disk, Contents
<1>3. CachesKnow'
  BY <1>1, <1>2 DEF Intact, CachesKnow, Base, TypeInv, CacheType
<1>4. CallersKnow'
  <2>1. ASSUME NEW u \in Workers, pc'[u] \in Critical PROVE Knows(u)'
    <3>1. /\ pc'[u] = pc[u] /\ request'[u] = request[u]
          /\ mine'[u] = mine[u] /\ scan'[u] = scan[u]
      BY <2>1 DEF Crash, Critical
    <3>2. Knows(u)
      BY <2>1, <3>1 DEF Intact, CallersKnow
    <3> QED
      BY <1>1, <1>2, <3>1, <3>2 DEF Knows, Fresh, Cutoff
  <2> QED
    BY <2>1 DEF CallersKnow
<1> QED
  BY <1>1, <1>3, <1>4, ElsewhereIntact

LEMMA InitIntact == Init => Intact
<1> SUFFICES ASSUME Init PROVE Intact
  OBVIOUS
<1>1. Numbered
  <2>1. CASE file = None
    <3>1. Readable(<<>>) = {}
      BY DEF Readable
    <3> QED
      BY <2>1, <3>1 DEF Numbered, Contents
  <2>2. CASE file # None
    <3>1. file \in InitialFiles \ {None} /\ Contents = file /\ recorded = Len(Contents)
      BY <2>2 DEF Init, Contents
    <3>2. \A x \in Readable(file) : x.id <= Len(file)
      BY <3>1, StoreAssumption
    <3> QED
      BY <3>1, <3>2 DEF Numbered
  <2> QED
    BY <2>1, <2>2
<1>2. CallersKnow
  BY DEF Init, CallersKnow, Critical
<1>3. CachesKnow
  BY DEF Init, CachesKnow
<1>4. AckedStaysReadable
  BY DEF Init, AckedStaysReadable
<1> QED
  BY <1>1, <1>2, <1>3, <1>4 DEF Intact

LEMMA NextIntact ==
  ASSUME ~TornWrites, Base, Intact, [Next]_vars
  PROVE  Intact'
<1>1. CASE UNCHANGED vars
  <2>1. Contents' = Contents
    BY <1>1 DEF vars, disk, Contents
  <2>2. UNCHANGED <<disk, cache, acked>> /\ recorded' = recorded
    BY <1>1 DEF vars, working
  <2>3. CallersKnow'
    BY <1>1, <2>1 DEF Intact, CallersKnow, Knows, Fresh, Cutoff, vars, working
  <2> QED
    BY <2>2, <2>3, CachesKept, ElsewhereIntact
<1>2. CASE \E w \in Workers : Begin(w) \/ Proceed(w)
  BY <1>2, BeginIntact, LockIntact, ScanIntact, AppendLineIntact, StageIntact, RenameIntact,
     SaveIntact DEF Proceed
<1>3. CASE \E p \in Procs : Evict(p) \/ Crash(p)
  BY <1>3, EvictIntact, CrashIntact
<1> QED
  BY <1>1, <1>2, <1>3 DEF Next

LEMMA AlwaysIntact ==
  ASSUME ~TornWrites
  PROVE  Spec => [](Base /\ Intact)
<1>1. Init => Base /\ Intact
  BY InitBase, InitIntact
<1>2. Base /\ Intact /\ [Next]_vars => (Base /\ Intact)'
  BY NextBase, NextIntact
<1> QED
  BY <1>1, <1>2, PTL DEF Spec

\* A snapshot whose recording was reported as done stays readable until a
\* rewrite's retention has passed it: appends, rewrites, failures and crashes of
\* any number of processes lose none, unless a write can leave half a line.
THEOREM NothingRecordedIsLost ==
  ASSUME ~TornWrites
  PROVE  Spec => []AckedStaysReadable
<1>1. Base /\ Intact => AckedStaysReadable
  BY DEF Intact
<1> QED
  BY <1>1, AlwaysIntact, PTL

-----------------------------------------------------------------------------
(* The store implements an atomic log *)

LEMMA LogInitially ==
  ASSUME Init
  PROVE  Log!Init
<1>1. Readable(<<>>) = {}
  BY DEF Readable
<1> QED
  BY <1>1 DEF Init, NoAnswer, Log!Init, Log!NoAnswer

\* A step that answers nobody and moves nothing of the log.
LEMMA QuietStep ==
  ASSUME CallType, Silently, UNCHANGED <<request, mine, recorded>>,
         Readable(Contents)' = Readable(Contents)
  PROVE  Log!Die({})
<1>1. Readable(<<>>) = {}
  BY DEF Readable
<1>2. /\ request = [w \in Workers |-> request[w]]
      /\ mine = [w \in Workers |-> mine[w]]
  BY DEF CallType
<1> QED
  BY <1>1, <1>2 DEF Silently, NoAnswer, Log!Die, Log!Silently, Log!NoAnswer

LEMMA LockAsks ==
  ASSUME Base, NEW w \in Workers, Lock(w)
  PROVE  Log!Ask(w)
<1>1. PICK r \in Requests : Asks(w, r)
  BY DEF Lock
<1>2. request[w] = NoCall
  BY DEF Lock, Critical, Base, Phases, InCall
<1>3. Contents' = Contents
  BY DEF Lock, disk, Contents
<1>4. Readable(<<>>) = {}
  BY DEF Readable
<1>5. Log!Silently
  BY <1>4 DEF Lock, Silently, NoAnswer, Log!Silently, Log!NoAnswer
<1> QED
  BY <1>1, <1>2, <1>3, <1>5 DEF Asks, Writers, Log!Ask

LEMMA GiveUpRefuses ==
  ASSUME Base, NEW w \in Workers, GiveUp(w)
  PROVE  Log!Refuse(w)
<1>1. request[w] = NoCall
  BY DEF GiveUp, Critical, Base, Phases, InCall
<1>2. Readable(<<>>) = {}
  BY DEF Readable
<1>3. Contents' = Contents
  BY DEF GiveUp, disk, Contents
<1> QED
  BY <1>1, <1>2, <1>3 DEF GiveUp, Log!Refuse, Log!Failed

LEMMA CrashDies ==
  ASSUME Base, NEW p \in Procs, Crash(p)
  PROVE  Log!Die({w \in Workers : ProcOf[w] = p})
<1>1. Readable(<<>>) = {}
  BY DEF Readable
<1>2. Contents' = Contents
  BY DEF Crash, disk, Contents
<1> QED
  BY <1>1, <1>2 DEF Crash, Silently, NoAnswer, Log!Die, Log!Silently, Log!NoAnswer

LEMMA SameCutoff ==
  ASSUME NEW w \in Workers
  PROVE  Log!Cutoff(w) = Cutoff(w) /\ Log!Fresh(w) = Fresh(w)
<1>1. Log!Cutoff(w) = Cutoff(w)
  BY DEF Log!Cutoff, Cutoff
<1> QED
  BY <1>1 DEF Log!Fresh, Fresh

\* A step of a call with an effect the log allows: on its way, failed or done.
LEMMA PerformsOnward ==
  ASSUME Base, NEW w \in Workers, pc[w] \in Critical, Log!Effect(w),
         Silently, UNCHANGED <<request, mine, recorded>>
  PROVE  Log!Perform(w)
<1>1. request[w] # NoCall
  BY RequestFields DEF Base, Phases, InCall
<1>2. Readable(<<>>) = {}
  BY DEF Readable
<1>3. Log!Silently
  BY <1>2 DEF Silently, NoAnswer, Log!Silently, Log!NoAnswer
<1> QED
  BY <1>1, <1>3 DEF Log!Perform

LEMMA PerformsFailing ==
  ASSUME Base, NEW w \in Workers, pc[w] \in Critical, Log!Effect(w),
         Return(w, "error", <<>>), recorded' = recorded
  PROVE  Log!Perform(w)
<1>1. request[w] # NoCall
  BY RequestFields DEF Base, Phases, InCall
<1>2. Readable(<<>>) = {}
  BY DEF Readable
<1>3. Log!Failed(w)
  BY <1>2 DEF Return, Log!Failed
<1> QED
  BY <1>1, <1>3 DEF Log!Perform, Return

LEMMA PerformsDone ==
  ASSUME Base, NEW w \in Workers, pc[w] \in Critical, Log!Effect(w),
         NEW status \in {"ok", "corrupt"}, NEW window \in Seq(Snapshots),
         Return(w, status, window), recorded' = recorded,
         request[w].kind \in Writers => mine[w] \in Readable(Contents)',
         request[w].kind = "prune" => \A x \in Readable(Contents)' : x.at > Cutoff(w),
         Elements(window) = Log!Window(w)
  PROVE  Log!Perform(w)
<1>1. request[w] # NoCall
  BY RequestFields DEF Base, Phases, InCall
<1>2. Readable(window) = Log!Window(w)
  BY ReadableLines, StoreAssumption
<1>3. answer' = [to |-> w, status |-> status, window |-> window]
  BY DEF Return
<1>4. Log!Done(w)
  BY <1>2, <1>3, SameCutoff DEF Log!Done, Log!Storing, Writers
<1> QED
  BY <1>1, <1>4 DEF Log!Perform, Return

\* What Window is for each kind of call.
LEMMA WindowKinds ==
  ASSUME NEW w \in Workers
  PROVE  /\ request[w].kind = "load" =>
              Log!Window(w) = {x \in Readable(Contents)' : x.at > Cutoff(w)}
         /\ request[w].kind = "record" =>
              Log!Window(w) = {x \in Readable(Contents)' : /\ x.at > Cutoff(w) \/ x = mine[w]
                                                           /\ x.at >= request[w].now - request[w].since}
         /\ request[w].kind \in {"append", "prune"} => Log!Window(w) = {}
BY SameCutoff DEF Log!Window

LEMMA ScanPerforms ==
  ASSUME Base, Intact, NEW w \in Workers, Scan(w)
  PROVE  Log!Perform(w)
<1> DEFINE p == ProcOf[w]
           c == Cutoff(w)
           found == IF Hit(p, c) THEN Narrowed(cache[p].scan, c) ELSE ScanOf(Contents, c)
<1>1. p \in Procs
  BY StoreAssumption
<1>2. Elements(found.retained) = Fresh(w) /\ found.retained \in Seq(Snapshots)
  BY <1>1, FoundElements, FoundType DEF Intact, Base
<1>3. pc[w] \in Critical
  BY DEF Scan, Critical
<1>4. /\ UNCHANGED disk /\ recorded' = recorded
      /\ \/ Return(w, "error", <<>>)
         \/ request[w].kind = "load" /\ Return(w, Verdict(found), found.retained)
         \/ Silently /\ UNCHANGED <<request, mine>>
  BY DEF Scan
<1>5. Contents' = Contents
  BY <1>4 DEF disk, Contents
<1>6. Log!Effect(w)
  BY <1>5 DEF Log!Effect
<1> HIDE DEF found, c, p
<1>7. CASE Return(w, "error", <<>>)
  BY <1>3, <1>4, <1>6, <1>7, PerformsFailing
<1>8. CASE Silently /\ UNCHANGED <<request, mine>>
  BY <1>3, <1>4, <1>6, <1>8, PerformsOnward
<1>9. CASE request[w].kind = "load" /\ Return(w, Verdict(found), found.retained)
  <2>1. Verdict(found) \in {"ok", "corrupt"}
    BY DEF Verdict
  <2>2. Elements(found.retained) = Log!Window(w)
    BY <1>2, <1>5, <1>9, WindowKinds DEF Fresh
  <2>3. request[w].kind \notin Writers /\ request[w].kind # "prune"
    BY <1>9 DEF Writers
  <2> QED
    BY <1>2, <1>3, <1>4, <1>6, <1>9, <2>1, <2>2, <2>3, PerformsDone
<1> QED
  BY <1>4, <1>7, <1>8, <1>9

\* A snapshot not yet written is not stored.
LEMMA NotYetStored ==
  ASSUME Base, Intact, NEW w \in Workers, pc[w] \in Critical, pc[w] # "saving",
         request[w].kind \in Writers
  PROVE  mine[w] # None /\ mine[w] \notin Readable(Contents)
<1>1. mine[w] # None
  BY MineIsSnapshot DEF Base, TypeInv
<1>2. mine[w] = [at |-> request[w].now, id |-> recorded]
  BY DEF Base, Phases, InCall
<1>3. recorded \in Nat
  BY DEF Base, TypeInv, CallType
<1>4. \A x \in Readable(Contents) : x.id < recorded
  BY DEF Intact, CallersKnow, Knows
<1> QED
  BY <1>1, <1>2, <1>3, <1>4

LEMMA AppendLinePerforms ==
  ASSUME Base, Intact, ~TornWrites, NEW w \in Workers, AppendLine(w)
  PROVE  Log!Perform(w)
<1>1. pc[w] = "appending" /\ pc[w] \in Critical
  BY DEF AppendLine, Critical
<1>2. request[w].kind \in {"record", "append"} /\ request[w].kind \in Writers
  BY <1>1, WritingFacts DEF Writers
<1>3. mine[w] # None /\ mine[w] \notin Readable(Contents)
  BY <1>1, <1>2, NotYetStored
<1>4. recorded' = recorded
  BY DEF AppendLine
<1>5. CASE /\ Readable(Contents)' = Readable(Contents)
           /\ Return(w, "error", <<>>)
  <2>1. Log!Effect(w)
    BY <1>5 DEF Log!Effect
  <2> QED
    BY <1>1, <1>4, <1>5, <2>1, PerformsFailing
<1>6. CASE Readable(Contents)' = Readable(Contents) \cup {mine[w]}
  <2>1. Log!Effect(w)
    BY <1>3, <1>6 DEF Log!Effect
  <2>2. CASE Return(w, "error", <<>>)
    BY <1>1, <1>4, <2>1, <2>2, PerformsFailing
  <2>3. CASE Silently /\ UNCHANGED <<request, mine>>
    BY <1>1, <1>4, <2>1, <2>3, PerformsOnward
  <2>4. CASE request[w].kind = "append" /\ Return(w, "ok", <<>>)
    <3>1. <<>> \in Seq(Snapshots) /\ Elements(<<>>) = {}
      BY DEF Elements
    <3>2. Elements(<<>>) = Log!Window(w)
      BY <2>4, <3>1, WindowKinds
    <3> QED
      BY <1>1, <1>4, <1>6, <2>1, <2>4, <3>1, <3>2, PerformsDone
  <2> QED
    BY <2>2, <2>3, <2>4 DEF AppendLine
<1> QED
  BY <1>5, <1>6, AppendLineStores

LEMMA StagePerforms ==
  ASSUME Base, NEW w \in Workers, Stage(w)
  PROVE  Log!Perform(w)
<1>1. pc[w] \in Critical
  BY DEF Stage, Critical
<1>2. Contents' = Contents /\ recorded' = recorded
  BY DEF Stage, disk, Contents
<1>3. Log!Effect(w)
  BY <1>2 DEF Log!Effect
<1> QED
  BY <1>1, <1>2, <1>3, PerformsFailing, PerformsOnward DEF Stage

LEMMA RenamePerforms ==
  ASSUME Base, Intact, NEW w \in Workers, Rename(w)
  PROVE  Log!Perform(w)
<1>1. pc[w] = "renaming" /\ pc[w] \in Critical
  BY DEF Rename, Critical
<1>2. request[w].kind \in {"record", "prune"}
  BY <1>1, WritingFacts
<1>3. recorded' = recorded
  BY DEF Rename
<1>4. CASE Return(w, "error", <<>>) /\ Readable(Contents)' = Readable(Contents)
  <2>1. Log!Effect(w)
    BY <1>4 DEF Log!Effect
  <2> QED
    BY <1>1, <1>3, <1>4, <2>1, PerformsFailing
<1>5. CASE /\ Readable(Contents)' = Fresh(w) \cup IF mine[w] = None THEN {} ELSE {mine[w]}
           /\ \/ request[w].kind = "record" /\ Silently /\ UNCHANGED <<request, mine>>
              \/ request[w].kind = "prune" /\ Return(w, Verdict(scan[w]), <<>>)
  <2>1. CASE request[w].kind = "record" /\ Silently /\ UNCHANGED <<request, mine>>
    <3>1. mine[w] # None /\ mine[w] \notin Readable(Contents)
      BY <1>1, <2>1, NotYetStored DEF Writers
    <3>2. Log!Effect(w)
      BY <1>5, <2>1, <3>1, SameCutoff DEF Log!Effect
    <3> QED
      BY <1>1, <1>3, <2>1, <3>2, PerformsOnward
  <2>2. CASE request[w].kind = "prune" /\ Return(w, Verdict(scan[w]), <<>>)
    <3>1. request[w].kind \notin Writers
      BY <2>2 DEF Writers
    <3>2. mine[w] = None
      BY <1>1, <3>1, MineIsSnapshot DEF Base, TypeInv
    <3>3. Readable(Contents)' = Fresh(w)
      BY <1>5, <3>2
    <3>4. Log!Effect(w)
      BY <2>2, <3>3, SameCutoff DEF Log!Effect
    <3>5. \A x \in Readable(Contents)' : x.at > Cutoff(w)
      BY <3>3 DEF Fresh
    <3>6. <<>> \in Seq(Snapshots) /\ Elements(<<>>) = {}
      BY DEF Elements
    <3>7. Elements(<<>>) = Log!Window(w)
      BY <2>2, <3>6, WindowKinds
    <3>8. Verdict(scan[w]) \in {"ok", "corrupt"}
      BY DEF Verdict
    <3> QED
      BY <1>1, <1>3, <2>2, <3>1, <3>4, <3>5, <3>6, <3>7, <3>8, PerformsDone
  <2> QED
    BY <1>5, <2>1, <2>2
<1>6. ASSUME UNCHANGED disk PROVE Readable(Contents)' = Readable(Contents)
  BY <1>6 DEF disk, Contents
<1> QED
  BY <1>4, <1>5, <1>6, RenameStores DEF Rename

LEMMA SavePerforms ==
  ASSUME Base, Intact, NEW w \in Workers, Save(w)
  PROVE  Log!Perform(w)
<1>1. pc[w] = "saving" /\ pc[w] \in Critical
  BY DEF Save, Critical
<1>2. request[w].kind = "record"
  BY <1>1, WritingFacts
<1>3. recorded' = recorded /\ Contents' = Contents
  BY DEF Save, disk, Contents
<1>4. Log!Effect(w)
  BY <1>3 DEF Log!Effect
<1>5. /\ mine[w] # None /\ mine[w] \in Readable(Contents)
      /\ Elements(scan[w].retained) \cup {mine[w]} = Fresh(w) \cup {mine[w]}
  BY <1>1, WritingFacts DEF Intact, CallersKnow, Knows
<1> DEFINE from == request[w].now - request[w].since
           window == NotBefore(Kept(w), from)
<1>6. window \in Seq(Snapshots) /\ Elements(window) = {x \in Elements(Kept(w)) : x.at >= from}
  BY WindowElements DEF Base, TypeInv
<1>7. Elements(Kept(w)) = Fresh(w) \cup {mine[w]}
  BY <1>5, KeptElements DEF Base, TypeInv
<1>8. Return(w, Verdict(scan[w]), window)
  BY DEF Save
<1>9. Verdict(scan[w]) \in {"ok", "corrupt"}
  BY DEF Verdict
<1>10. Elements(window) = Log!Window(w)
  <2>1. Log!Window(w) = {x \in Readable(Contents)' : (x.at > Cutoff(w) \/ x = mine[w]) /\ x.at >= from}
    BY <1>2, WindowKinds
  <2>2. {x \in Readable(Contents) : x.at > Cutoff(w) \/ x = mine[w]} = Fresh(w) \cup {mine[w]}
    BY <1>5 DEF Fresh
  <2> HIDE DEF from, window
  <2> QED
    BY <1>3, <1>6, <1>7, <2>1, <2>2
<1> HIDE DEF window
<1>11. /\ request[w].kind \in Writers => mine[w] \in Readable(Contents)'
       /\ request[w].kind = "prune" => \A x \in Readable(Contents)' : x.at > Cutoff(w)
  <2> HIDE DEF from
  <2> QED
    BY <1>2, <1>3, <1>5
<1> HIDE DEF from
<1> QED
  BY <1>1, <1>3, <1>4, <1>6, <1>8, <1>9, <1>10, <1>11, PerformsDone

LEMMA StepIsLogged ==
  ASSUME ~TornWrites, Base, Intact, [Next]_vars
  PROVE  [Log!Next]_Log!vars
<1>1. CASE UNCHANGED vars
  <2>1. Contents' = Contents /\ UNCHANGED <<request, mine, recorded, answer>>
    BY <1>1 DEF vars, disk, working, Contents
  <2> QED
    BY <2>1 DEF Log!vars
<1>2. ASSUME NEW w \in Workers, Begin(w) \/ Proceed(w) PROVE Log!Next
  <2>1. CASE Begin(w)
    <3>1. Contents' = Contents
      BY <2>1 DEF Begin, disk, Contents
    <3>2. Log!Die({})
      BY <2>1, <3>1, QuietStep DEF Begin, Base, TypeInv
    <3> QED
      BY <3>2 DEF Log!Next
  <2>2. CASE Lock(w)
    BY <2>2, LockAsks DEF Log!Next
  <2>3. CASE GiveUp(w)
    BY <2>3, GiveUpRefuses DEF Log!Next
  <2>4. CASE Scan(w) \/ AppendLine(w) \/ Stage(w) \/ Rename(w) \/ Save(w)
    <3>1. Log!Perform(w)
      BY <2>4, ScanPerforms, AppendLinePerforms, StagePerforms, RenamePerforms, SavePerforms
    <3> QED
      BY <3>1 DEF Log!Next
  <2> QED
    BY <1>2, <2>1, <2>2, <2>3, <2>4 DEF Proceed
<1>3. ASSUME NEW p \in Procs, Evict(p) \/ Crash(p) PROVE Log!Next
  <2>1. CASE Evict(p)
    <3>1. Contents' = Contents /\ UNCHANGED <<request, mine, recorded>> /\ Silently
      BY <2>1 DEF Evict, disk, Contents, working
    <3>2. Log!Die({})
      BY <3>1, QuietStep DEF Base, TypeInv
    <3> QED
      BY <3>2 DEF Log!Next
  <2>2. CASE Crash(p)
    BY <2>2, CrashDies DEF Log!Next
  <2> QED
    BY <1>3, <2>1, <2>2
<1> QED
  BY <1>1, <1>2, <1>3 DEF Next

\* The files, locks, scans, caches, appends and rewrites of any number of
\* processes that call the store, fail and die implement one atomic log: what a
\* call returns is what the log holds at that moment, and a call that failed or
\* was interrupted has stored its snapshot or not, and nothing else.
THEOREM StoreIsAtomicLog ==
  ASSUME ~TornWrites
  PROVE  Spec => ImplementsSnapshotLog
<1>1. Init => Log!Init
  BY LogInitially
<1>2. Base /\ Intact /\ [Next]_vars => [Log!Next]_Log!vars
  BY StepIsLogged
<1>3. Spec => [](Base /\ Intact)
  BY AlwaysIntact
<1> QED
  BY <1>1, <1>2, <1>3, PTL DEF Spec, ImplementsSnapshotLog, Log!Spec

-----------------------------------------------------------------------------
(* The order of what is stored, remembered and returned *)

\* The sequences in the caches and scans of all processes.
Memory ==
  {cache[p].scan.retained : p \in {q \in Procs : cache[q] # None}}
    \cup {scan[w].retained : w \in Workers}

\* The snapshot to record is the newest of all.
Newest(w) ==
  /\ \A s \in Memory : \A x \in Elements(s) : x.id < recorded
  /\ pc[w] # "saving" => \A x \in Readable(Contents) : x.id < recorded

MemoryOrdered == \A s \in Memory : Sorted(s) /\ \A x \in Elements(s) : x.id <= recorded

Ordered ==
  /\ InOrder(Contents) /\ Numbered
  /\ MemoryOrdered
  /\ \A w \in Workers : pc[w] \in Critical /\ mine[w] # None => Newest(w)
  /\ AnswersInOrder

LEMMA MemoryType ==
  ASSUME Base
  PROVE  Memory \subseteq Seq(Snapshots)
<1>1. ASSUME NEW p \in Procs, cache[p] # None PROVE cache[p].scan.retained \in Seq(Snapshots)
  <2>1. cache[p] \in Caches
    BY <1>1 DEF Base, TypeInv, CacheType
  <2> QED
    BY <2>1 DEF Caches, Scans
<1>2. ASSUME NEW w \in Workers PROVE scan[w].retained \in Seq(Snapshots)
  BY DEF Base, TypeInv, CallType, Scans
<1> QED
  BY <1>1, <1>2 DEF Memory

LEMMA EmptySorted == <<>> \in Seq(Snapshots) /\ Sorted(<<>>) /\ Elements(<<>>) = {}
BY DEF Sorted, Elements

\* What a step that remembers at most one sequence more leaves in memory.
LEMMA Remembers ==
  ASSUME NEW s,
         \A p \in Procs : \/ cache'[p] = None
                          \/ cache[p] # None /\ cache'[p].scan = cache[p].scan
                          \/ cache'[p].scan.retained = s,
         \A w \in Workers : scan'[w] = scan[w] \/ scan'[w].retained = s \/ scan'[w] = NoScan
  PROVE  Memory' \subseteq Memory \cup {s, <<>>}
BY DEF Memory, NoScan

LEMMA OutdatedRemembers ==
  ASSUME CacheType, NEW p \in Procs
  PROVE  /\ Outdated[p] = None \/ (cache[p] # None /\ Outdated[p].scan = cache[p].scan)
         /\ Outdated[p] # None => ~Outdated[p].current
<1>1. CASE cache[p] = None
  BY <1>1 DEF Outdated
<1>2. CASE cache[p] # None
  <2>1. cache[p] \in Caches
    BY <1>2 DEF CacheType
  <2>2. Outdated[p] = [cache[p] EXCEPT !.current = FALSE]
    BY <1>2 DEF Outdated
  <2>3. Outdated[p].scan = cache[p].scan /\ Outdated[p].current = FALSE
    BY <2>1, <2>2 DEF Caches
  <2> QED
    BY <1>2, <2>3
<1> QED
  BY <1>1, <1>2

LEMMA OrderedAnswer ==
  ASSUME Base', Sorted(answer'.window)
  PROVE  AnswersInOrder'
<1>1. DOMAIN answer'.window = 1 .. Len(answer'.window)
  <2>1. answer'.window \in Seq(Snapshots)
    BY DEF Base, TypeInv, CallType
  <2> QED
    BY <2>1
<1>2. ASSUME NEW j \in DOMAIN answer'.window, NEW i \in 1 .. j - 1
      PROVE  Precedes(answer'.window[i], answer'.window[j])
  <2>1. i \in DOMAIN answer'.window /\ i < j
    BY <1>1, <1>2
  <2> QED
    BY <2>1 DEF Sorted
<1> QED
  BY <1>2 DEF AnswersInOrder, Precedes

\* Whoever holds the lock after a step is the only one whose snapshot counts.
LEMMA OnlyNewest ==
  ASSUME Base', NEW w \in Workers, lock' \in {w, None},
         pc'[w] \in Critical /\ mine'[w] # None => Newest(w)'
  PROVE  \A u \in Workers : pc'[u] \in Critical /\ mine'[u] # None => Newest(u)'
<1>1. \A u \in Workers : pc'[u] \in Critical => lock' = u
  BY DEF Base, Phases, InCall
<1> QED
  BY <1>1, StoreAssumption

\* A step that ends a call, and one on the way.
LEMMA ReturnOrdered ==
  ASSUME Base, Base', NEW w \in Workers, NEW status, NEW window,
         Return(w, status, window), Sorted(window),
         InOrder(Contents)', Numbered', MemoryOrdered'
  PROVE  Ordered'
<1>1. AnswersInOrder'
  <2>1. answer'.window = window
    BY DEF Return
  <2> QED
    BY <2>1, OrderedAnswer
<1>2. \A u \in Workers : pc'[u] \in Critical /\ mine'[u] # None => Newest(u)'
  <2>1. pc'[w] = "idle" /\ lock' = None
    BY DEF Return, Goto, Base, TypeInv, CallType
  <2> QED
    BY <2>1, OnlyNewest DEF Critical
<1> QED
  BY <1>1, <1>2 DEF Ordered

LEMMA SilentOrdered ==
  ASSUME Base', Silently, NEW w \in Workers, lock' \in {w, None},
         pc'[w] \in Critical /\ mine'[w] # None => Newest(w)',
         InOrder(Contents)', Numbered', MemoryOrdered'
  PROVE  Ordered'
<1>1. AnswersInOrder'
  <2>1. answer'.window = <<>>
    BY DEF Silently, NoAnswer
  <2> QED
    BY <2>1, EmptySorted, OrderedAnswer
<1> QED
  BY <1>1, OnlyNewest DEF Ordered

LEMMA BeginOrdered ==
  ASSUME Base, Base', Ordered, NEW w \in Workers, Begin(w) \/ GiveUp(w)
  PROVE  Ordered'
<1>1. UNCHANGED <<cache, lock, request, mine, scan, recorded, file>> /\ Contents' = Contents
  BY DEF Begin, GiveUp, disk, Contents
<1>2. \A u \in Workers : pc'[u] = pc[u] \/ pc'[u] \notin Critical
  BY DEF Begin, GiveUp, Goto, Base, TypeInv, CallType, Critical
<1>3. Memory' = Memory
  BY <1>1 DEF Memory
<1>4. AnswersInOrder'
  <2>1. answer'.window = <<>>
    BY DEF Begin, GiveUp, Silently, NoAnswer
  <2> QED
    BY <2>1, EmptySorted, OrderedAnswer
<1>5. ASSUME NEW u \in Workers, pc'[u] \in Critical, mine'[u] # None PROVE Newest(u)'
  <2>1. pc'[u] = pc[u] /\ Newest(u)
    BY <1>1, <1>2, <1>5 DEF Ordered
  <2> QED
    BY <1>1, <1>3, <2>1 DEF Newest
<1>6. InOrder(Contents)' /\ Numbered' /\ MemoryOrdered'
  BY <1>1, <1>3 DEF Ordered, Numbered, MemoryOrdered
<1> QED
  BY <1>4, <1>5, <1>6 DEF Ordered

\* The numbers handed out are numbers.
LEMMA StoredNumbers ==
  ASSUME Base
  PROVE  /\ recorded \in Nat
         /\ \A x \in Readable(Contents) : x \in Snapshots /\ x.id \in Nat
         /\ \A s \in Memory : s \in Seq(Snapshots) /\ \A x \in Elements(s) : x.id \in Nat
<1>1. Readable(Contents) \subseteq Snapshots /\ recorded \in Nat
  BY ReadableIsSnapshots DEF Base, TypeInv, CallType
<1>2. \A s \in Memory : s \in Seq(Snapshots) /\ Elements(s) \subseteq Snapshots
  BY MemoryType DEF Elements
<1>3. \A x \in Snapshots : x.id \in Nat
  BY DEF Snapshots
<1> QED
  BY <1>1, <1>2, <1>3

LEMMA LockOrdered ==
  ASSUME Base, Base', Ordered, NEW w \in Workers, Lock(w)
  PROVE  Ordered'
<1>1. UNCHANGED <<disk, cache, scan>> /\ Contents' = Contents /\ lock' = w /\ Silently
  BY DEF Lock, disk, Contents
<1>2. PICK r \in Requests : Asks(w, r)
  BY DEF Lock
<1>3. recorded' = recorded + 1 \/ (recorded' = recorded /\ mine' = mine)
  BY <1>2 DEF Asks
<1>4. mine[w] = None
  <2>1. pc[w] \notin Critical
    BY DEF Lock, Critical
  <2> QED
    BY <2>1 DEF Base, Phases, InCall
<1>5. Memory' = Memory
  BY <1>1 DEF Memory
<1>6. pc'[w] \in Critical /\ mine'[w] # None => Newest(w)'
  BY <1>1, <1>3, <1>4, <1>5, StoredNumbers DEF Newest, Ordered, MemoryOrdered, Numbered
<1>7. InOrder(Contents)' /\ Numbered' /\ MemoryOrdered'
  BY <1>1, <1>3, <1>5, StoredNumbers DEF Ordered, Numbered, MemoryOrdered
<1> QED
  BY <1>1, <1>6, <1>7, SilentOrdered

\* What a scan finds.
LEMMA FoundOrdered ==
  ASSUME Base, Ordered, NEW w \in Workers, NEW p \in Procs
  PROVE  LET c == Cutoff(w)
             found == IF Hit(p, c) THEN Narrowed(cache[p].scan, c) ELSE ScanOf(Contents, c)
         IN  /\ Sorted(found.retained)
             /\ \A x \in Elements(found.retained) :
                  x \in Readable(Contents) \/ \E s \in Memory : x \in Elements(s)
<1> DEFINE c == Cutoff(w)
<1>1. c \in Int
  BY CutoffIsTime DEF Base, TypeInv
<1> HIDE DEF c
<1>2. /\ Sorted(ScanOf(Contents, c).retained)
      /\ Elements(ScanOf(Contents, c).retained) \subseteq Readable(Contents)
  <2>1. Exact(ScanOf(Contents, c), c, Contents)
    BY <1>1, ContentsType, ScanExact, StoreAssumption DEF Base, TypeInv, Ordered
  <2> QED
    BY <2>1 DEF Exact
<1>3. ASSUME Hit(p, c)
      PROVE  /\ Sorted(Narrowed(cache[p].scan, c).retained)
             /\ \E s \in Memory : Elements(Narrowed(cache[p].scan, c).retained) \subseteq Elements(s)
  <2> DEFINE s == cache[p].scan.retained
  <2>1. cache[p] # None /\ cache[p] \in Caches
    BY <1>3 DEF Base, TypeInv, CacheType, Hit
  <2>2. cache[p].scan \in Scans /\ s \in Memory /\ s \in Seq(Snapshots)
    BY <2>1 DEF Caches, Scans, Memory
  <2>3. Elements(Narrowed(cache[p].scan, c).retained) = {x \in Elements(s) : x.at > c}
    BY <1>1, <2>2, NarrowedRetains
  <2>4. Narrowed(cache[p].scan, c).retained = After(s, c)
    BY <2>2 DEF Narrowed, Scans
  <2>5. Sorted(s)
    BY <2>2 DEF Ordered, MemoryOrdered
  <2> HIDE DEF s
  <2>6. Sorted(After(s, c))
    BY <2>2, <2>5, AmongSorted DEF After
  <2> QED
    BY <2>2, <2>3, <2>4, <2>6
<1> QED
  BY <1>2, <1>3 DEF c

LEMMA KeptSorted ==
  ASSUME Base, Ordered, NEW w \in Workers, pc[w] \in Critical
  PROVE  /\ Kept(w) \in Seq(Snapshots) /\ Sorted(Kept(w))
         /\ \A x \in Elements(Kept(w)) : x.id <= recorded
<1> DEFINE s == scan[w].retained
<1>1. s \in Memory /\ s \in Seq(Snapshots)
  BY StoredNumbers DEF Memory
<1>2. /\ Kept(w) \in Seq(Snapshots)
      /\ Elements(Kept(w)) = Elements(s) \cup IF mine[w] = None THEN {} ELSE {mine[w]}
  BY KeptElements DEF Base, TypeInv
<1>3. Sorted(s) /\ \A x \in Elements(s) : x.id <= recorded
  BY <1>1 DEF Ordered, MemoryOrdered
<1>4. CASE mine[w] = None
  <2>1. Kept(w) = s
    BY <1>4 DEF Kept
  <2> QED
    BY <1>2, <1>3, <1>4, <2>1
<1>5. CASE mine[w] # None
  <2>1. mine[w] \in Snapshots /\ mine[w].id = recorded
    <3>1. mine[w] = [at |-> request[w].now, id |-> recorded]
      BY <1>5 DEF Base, Phases, InCall
    <3> QED
      BY <1>5, <3>1 DEF Base, TypeInv, CallType
  <2>2. \A x \in Elements(s) : x.id < recorded
    BY <1>1, <1>5 DEF Ordered, Newest
  <2>3. Kept(w) = Inserted(s, mine[w])
    BY <1>5 DEF Kept
  <2> HIDE DEF s
  <2>4. Sorted(Inserted(s, mine[w]))
    BY <1>1, <1>3, <2>1, <2>2, InsertedSorts
  <2>5. recorded \in Nat
    BY StoredNumbers
  <2> QED
    BY <1>2, <1>3, <2>1, <2>3, <2>4, <2>5
<1> QED
  BY <1>4, <1>5

LEMMA ScanOrdered ==
  ASSUME Base, Base', Ordered, NEW w \in Workers, Scan(w)
  PROVE  Ordered'
<1> DEFINE p == ProcOf[w]
           c == Cutoff(w)
           found == IF Hit(p, c) THEN Narrowed(cache[p].scan, c) ELSE ScanOf(Contents, c)
           s == found.retained
<1>1. p \in Procs
  BY StoreAssumption
<1>2. Sorted(s) /\ \A x \in Elements(s) : x \in Readable(Contents) \/ \E m \in Memory : x \in Elements(m)
  BY <1>1, FoundOrdered
<1>3. pc[w] = "scanning" /\ pc[w] \in Critical
  BY DEF Scan, Critical
<1>4. /\ UNCHANGED disk /\ recorded' = recorded
      /\ \/ /\ cache' = [cache EXCEPT ![p] = None]
            /\ Return(w, "error", <<>>)
         \/ /\ cache' = [cache EXCEPT ![p] = IF file = None THEN None
                                              ELSE IF Hit(p, c) THEN cache[p] ELSE Cached(c, found)]
            /\ \/ Return(w, Verdict(found), s)
               \/ /\ scan' = [scan EXCEPT ![w] = found]
                  /\ \E q \in {"staging", "appending"} : Goto(w, q)
                  /\ Silently /\ UNCHANGED <<lock, request, mine>>
  BY DEF Scan
<1>5. Contents' = Contents
  BY <1>4 DEF disk, Contents
<1> HIDE DEF found, c, p
<1>6. InOrder(Contents)' /\ Numbered'
  BY <1>4, <1>5 DEF Ordered, Numbered
<1>7. Memory' \subseteq Memory \cup {s, <<>>}
  <2>1. ASSUME NEW q \in Procs
        PROVE  \/ cache'[q] = None
               \/ cache[q] # None /\ cache'[q].scan = cache[q].scan
               \/ cache'[q].scan.retained = s
    <3>1. cache'[q] = None \/ cache'[q] = cache[q] \/ cache'[q] = Cached(c, found)
      BY <1>1, <1>4 DEF Base, TypeInv, CacheType
    <3>2. Cached(c, found).scan.retained = s
      BY DEF Cached
    <3> QED
      BY <3>1, <3>2
  <2>2. ASSUME NEW u \in Workers PROVE scan'[u] = scan[u] \/ scan'[u] = found \/ scan'[u] = NoScan
    BY <1>4 DEF Return, Base, TypeInv, CallType
  <2> HIDE DEF s
  <2>3. \A u \in Workers : scan'[u] = scan[u] \/ scan'[u].retained = s \/ scan'[u] = NoScan
    BY <2>2 DEF s
  <2> QED
    BY <2>1, <2>3, Remembers
<1> HIDE DEF s
<1>8. MemoryOrdered'
  BY <1>2, <1>4, <1>7, EmptySorted DEF Ordered, MemoryOrdered, Numbered
<1>9. CASE \E status, window : Return(w, status, window) /\ (window = <<>> \/ window = s)
  BY <1>2, <1>6, <1>8, <1>9, EmptySorted, ReturnOrdered
<1>10. ASSUME NEW q \in {"staging", "appending"}, Goto(w, q), Silently, UNCHANGED <<lock, mine>>
       PROVE  Ordered'
  <2>1. ASSUME mine'[w] # None PROVE Newest(w)'
    <3>1. Newest(w) /\ pc[w] # "saving"
      BY <1>3, <1>10, <2>1 DEF Ordered
    <3> QED
      BY <1>2, <1>4, <1>5, <1>7, <3>1, EmptySorted DEF Newest
  <2>2. lock' = w
    BY <1>3, <1>10 DEF Base, Phases, InCall
  <2> QED
    BY <1>6, <1>8, <1>10, <2>1, <2>2, SilentOrdered
<1> QED
  BY <1>4, <1>9, <1>10

\* Caches that only grow stale remember nothing new.
LEMMA StaleMemory ==
  ASSUME Base, NEW p \in Procs,
         \/ cache' \in {cache, Outdated}
         \/ cache' \in {[cache EXCEPT ![p] = None], [Outdated EXCEPT ![p] = None]},
         \A w \in Workers : scan'[w] = scan[w] \/ scan'[w] = NoScan
  PROVE  Memory' \subseteq Memory \cup {<<>>}
<1>1. \A q \in Procs : Outdated[q] = None \/ (cache[q] # None /\ Outdated[q].scan = cache[q].scan)
  BY OutdatedRemembers DEF Base, TypeInv
<1>2. DOMAIN cache = Procs /\ DOMAIN Outdated = Procs
  BY DEF Base, TypeInv, CacheType, Outdated
<1>3. ASSUME NEW q \in Procs
      PROVE  cache'[q] = None \/ (cache[q] # None /\ cache'[q].scan = cache[q].scan)
  <2>1. cache'[q] \in {cache[q], Outdated[q], None}
    BY <1>2
  <2> QED
    BY <1>1, <2>1
<1>4. Memory' \subseteq Memory \cup {<<>>, <<>>}
  BY <1>3, Remembers
<1> QED
  BY <1>4

LEMMA StaleOrdered ==
  ASSUME Ordered, Memory' \subseteq Memory \cup {<<>>}, recorded' = recorded
  PROVE  /\ MemoryOrdered'
         /\ \A w \in Workers :
              Newest(w) /\ (pc'[w] # "saving" => pc[w] # "saving" /\ Readable(Contents)' = Readable(Contents))
                => Newest(w)'
BY EmptySorted DEF Ordered, MemoryOrdered, Newest

LEMMA AppendLineOrdered ==
  ASSUME Base, Base', Ordered, NEW w \in Workers, AppendLine(w)
  PROVE  Ordered'
<1>1. pc[w] = "appending" /\ pc[w] \in Critical /\ lock = w
  BY DEF AppendLine, Critical, Base, Phases, InCall
<1>2. mine[w] \in Snapshots /\ mine[w] # None /\ mine[w].id = recorded
  <2>1. mine[w] \in Snapshots /\ mine[w] # None
    BY <1>1, WritingFacts
  <2>2. mine[w] = [at |-> request[w].now, id |-> recorded]
    BY <1>1, <2>1 DEF Base, Phases, InCall
  <2> QED
    BY <2>1, <2>2
<1>3. Newest(w)
  BY <1>1, <1>2 DEF Ordered
<1>4. recorded' = recorded /\ cache' = [Outdated EXCEPT ![ProcOf[w]] = None]
  BY DEF AppendLine
<1>5. InOrder(Contents)' /\ Numbered'
  <2>1. \/ \E line \in {Corrupt, mine[w]} : file' = AddLine(Contents, torn, line)
        \/ file' = Contents
    BY DEF AppendLine
  <2>2. Contents \in Seq(Lines) /\ torn \in BOOLEAN /\ (torn => Contents # <<>>)
    BY ContentsType DEF Base, TypeInv, DiskType
  <2>3. CASE file' = Contents
    <3>1. Contents' = Contents
      BY <2>2, <2>3, StoreAssumption DEF Contents
    <3> QED
      BY <1>4, <3>1 DEF Ordered, Numbered
  <2>4. ASSUME NEW line \in {Corrupt, mine[w]}, file' = AddLine(Contents, torn, line)
        PROVE  InOrder(Contents)' /\ Numbered'
    <3>1. line \in Lines
      BY <1>2 DEF Lines
    <3>2. line # Corrupt => \A y \in Readable(Contents) : y.id < line.id
      BY <1>1, <1>2, <1>3, <2>4 DEF Newest
    <3>3. /\ InOrder(AddLine(Contents, torn, line))
          /\ Readable(AddLine(Contents, torn, line)) \subseteq Readable(Contents) \cup ({line} \ {Corrupt})
      BY <2>2, <3>1, <3>2, LineAddedOrder, StoreAssumption DEF Ordered
    <3>4. file' \in Seq(Lines)
      BY <2>4, <3>1, AddedLineType DEF Base, TypeInv
    <3>5. Contents' = file'
      BY <3>4, StoreAssumption DEF Contents
    <3>6. InOrder(Contents)' /\ Readable(Contents)' \subseteq Readable(Contents) \cup {mine[w]}
      BY <2>4, <3>3, <3>5
    <3> QED
      BY <1>2, <1>4, <3>6, StoredNumbers DEF Ordered, Numbered
  <2> QED
    BY <2>1, <2>3, <2>4
<1>6. Memory' \subseteq Memory \cup {<<>>}
  <2>1. \A u \in Workers : scan'[u] = scan[u] \/ scan'[u] = NoScan
    BY DEF AppendLine, Return, Base, TypeInv, CallType
  <2>2. ProcOf[w] \in Procs
    BY StoreAssumption
  <2> QED
    BY <1>4, <2>1, <2>2, StaleMemory
<1>7. MemoryOrdered'
  BY <1>4, <1>6, StaleOrdered
<1>8. CASE \E status : Return(w, status, <<>>)
  BY <1>5, <1>7, <1>8, EmptySorted, ReturnOrdered
<1>9. CASE Goto(w, "saving") /\ Silently /\ lock' = lock
  <2>1. pc'[w] = "saving"
    BY <1>9 DEF Goto, Base, TypeInv, CallType
  <2>2. Newest(w)'
    BY <1>3, <1>4, <1>6, <2>1, StaleOrdered
  <2> QED
    BY <1>1, <1>5, <1>7, <1>9, <2>2, SilentOrdered
<1> QED
  BY <1>8, <1>9 DEF AppendLine

LEMMA StageOrdered ==
  ASSUME Base, Base', Ordered, NEW w \in Workers, Stage(w)
  PROVE  Ordered'
<1>1. pc[w] = "staging" /\ pc[w] \in Critical /\ lock = w
  BY DEF Stage, Critical, Base, Phases, InCall
<1>2. UNCHANGED disk /\ recorded' = recorded /\ cache' = [cache EXCEPT ![ProcOf[w]] = None]
  BY DEF Stage
<1>3. Contents' = Contents
  BY <1>2 DEF disk, Contents
<1>4. InOrder(Contents)' /\ Numbered'
  BY <1>2, <1>3 DEF Ordered, Numbered
<1>5. Memory' \subseteq Memory \cup {<<>>}
  <2>1. \A u \in Workers : scan'[u] = scan[u] \/ scan'[u] = NoScan
    BY DEF Stage, Return, Base, TypeInv, CallType
  <2>2. ProcOf[w] \in Procs
    BY StoreAssumption
  <2> QED
    BY <1>2, <2>1, <2>2, StaleMemory
<1>6. MemoryOrdered'
  BY <1>2, <1>5, StaleOrdered
<1>7. CASE Return(w, "error", <<>>)
  BY <1>4, <1>6, <1>7, EmptySorted, ReturnOrdered
<1>8. CASE Goto(w, "renaming") /\ Silently /\ UNCHANGED <<lock, mine>>
  <2>1. mine'[w] # None => Newest(w)
    BY <1>1, <1>8 DEF Ordered
  <2>2. mine'[w] # None => Newest(w)'
    BY <1>1, <1>2, <1>3, <1>5, <2>1, StaleOrdered
  <2> QED
    BY <1>1, <1>4, <1>6, <1>8, <2>2, SilentOrdered
<1> QED
  BY <1>7, <1>8 DEF Stage

LEMMA RenameOrdered ==
  ASSUME Base, Base', Ordered, NEW w \in Workers, Rename(w)
  PROVE  Ordered'
<1>1. pc[w] = "renaming" /\ pc[w] \in Critical /\ lock = w
  BY DEF Rename, Critical, Base, Phases, InCall
<1>2. recorded' = recorded /\ cache' \in {cache, Outdated}
  BY DEF Rename
<1>3. InOrder(Contents)' /\ Numbered'
  <2>1. CASE UNCHANGED disk
    <3>1. Contents' = Contents
      BY <2>1 DEF disk, Contents
    <3> QED
      BY <1>2, <3>1 DEF Ordered, Numbered
  <2>2. CASE file' = Kept(w)
    <3>1. /\ Kept(w) \in Seq(Snapshots) /\ Sorted(Kept(w))
          /\ \A x \in Elements(Kept(w)) : x.id <= recorded
      BY <1>1, KeptSorted
    <3>2. Kept(w) \in Seq(Lines) /\ Readable(Kept(w)) = Elements(Kept(w))
      BY <3>1, ReadableLines, StoreAssumption
    <3>3. Contents' = Kept(w)
      BY <2>2, <3>2, StoreAssumption DEF Contents
    <3>4. InOrder(Kept(w))
      <4> DEFINE s == Kept(w)
      <4>1. \A i \in DOMAIN s : s[i] \in Snapshots
        BY <3>1
      <4> HIDE DEF s
      <4>2. \A x \in Snapshots : x.at \in Nat
        BY DEF Snapshots
      <4>3. InOrder(s)
        BY <3>1, <4>1, <4>2 DEF InOrder, Sorted, Precedes, s
      <4> QED
        BY <4>3 DEF s
    <3> QED
      BY <1>2, <3>1, <3>2, <3>3, <3>4 DEF Numbered
  <2> QED
    BY <2>1, <2>2 DEF Rename
<1>4. Memory' \subseteq Memory \cup {<<>>}
  <2>1. \A u \in Workers : scan'[u] = scan[u] \/ scan'[u] = NoScan
    BY DEF Rename, Return, Base, TypeInv, CallType
  <2>2. ProcOf[w] \in Procs
    BY StoreAssumption
  <2> QED
    BY <1>2, <2>1, <2>2, StaleMemory
<1>5. MemoryOrdered'
  BY <1>2, <1>4, StaleOrdered
<1>6. CASE \E status : Return(w, status, <<>>)
  BY <1>3, <1>5, <1>6, EmptySorted, ReturnOrdered
<1>7. CASE Goto(w, "saving") /\ Silently /\ UNCHANGED <<lock, mine>>
  <2>1. pc'[w] = "saving"
    BY <1>7 DEF Goto, Base, TypeInv, CallType
  <2>2. mine'[w] # None => Newest(w)'
    BY <1>1, <1>2, <1>4, <1>7, <2>1, StaleOrdered DEF Ordered
  <2> QED
    BY <1>1, <1>3, <1>5, <1>7, <2>2, SilentOrdered
<1> QED
  BY <1>6, <1>7 DEF Rename

LEMMA SaveOrdered ==
  ASSUME Base, Base', Ordered, NEW w \in Workers, Save(w)
  PROVE  Ordered'
<1> DEFINE s == Kept(w)
           t == request[w].now - request[w].since
<1>1. pc[w] \in Critical
  BY DEF Save, Critical
<1>2. /\ UNCHANGED disk /\ recorded' = recorded
      /\ cache' = [cache EXCEPT ![ProcOf[w]] = Cached(Cutoff(w), Written(w))]
      /\ Return(w, Verdict(scan[w]), NotBefore(s, t))
  BY DEF Save
<1>3. Contents' = Contents
  BY <1>2 DEF disk, Contents
<1>4. s \in Seq(Snapshots) /\ Sorted(s) /\ \A x \in Elements(s) : x.id <= recorded
  BY <1>1, KeptSorted
<1>5. Written(w).retained = s
  BY WrittenType DEF Base, TypeInv
<1> HIDE DEF s, t
<1>6. Memory' \subseteq Memory \cup {s, <<>>}
  <2>1. ASSUME NEW q \in Procs
        PROVE  \/ cache'[q] = None
               \/ cache[q] # None /\ cache'[q].scan = cache[q].scan
               \/ cache'[q].scan.retained = s
    <3>1. cache'[q] = cache[q] \/ cache'[q] = Cached(Cutoff(w), Written(w))
      BY <1>2 DEF Base, TypeInv, CacheType
    <3> QED
      BY <1>5, <3>1 DEF Cached
  <2>2. \A u \in Workers : scan'[u] = scan[u] \/ scan'[u] = NoScan
    BY <1>2 DEF Return, Base, TypeInv, CallType
  <2> QED
    BY <2>1, <2>2, Remembers
<1>7. MemoryOrdered'
  BY <1>2, <1>4, <1>6, EmptySorted DEF Ordered, MemoryOrdered
<1>8. InOrder(Contents)' /\ Numbered'
  BY <1>2, <1>3 DEF Ordered, Numbered
<1>9. Sorted(NotBefore(s, t))
  BY <1>4, AmongSorted DEF NotBefore
<1> QED
  BY <1>2, <1>7, <1>8, <1>9, ReturnOrdered

LEMMA ElsewhereOrdered ==
  ASSUME Base, Base', Ordered, Silently, UNCHANGED disk, recorded' = recorded,
         Memory' \subseteq Memory \cup {<<>>},
         \A w \in Workers : pc'[w] \in Critical => pc'[w] = pc[w] /\ mine'[w] = mine[w]
  PROVE  Ordered'
<1>1. Contents' = Contents
  BY DEF disk, Contents
<1>2. InOrder(Contents)' /\ Numbered'
  BY <1>1 DEF Ordered, Numbered
<1>3. MemoryOrdered'
  BY StaleOrdered
<1>4. ASSUME NEW w \in Workers, pc'[w] \in Critical, mine'[w] # None PROVE Newest(w)'
  <2>1. pc'[w] = pc[w] /\ Newest(w)
    BY <1>4 DEF Ordered
  <2> QED
    BY <1>1, <2>1, StaleOrdered
<1>5. AnswersInOrder'
  <2>1. answer'.window = <<>>
    BY DEF Silently, NoAnswer
  <2> QED
    BY <2>1, EmptySorted, OrderedAnswer
<1> QED
  BY <1>2, <1>3, <1>4, <1>5 DEF Ordered

LEMMA EvictOrdered ==
  ASSUME Base, Base', Ordered, NEW p \in Procs, Evict(p) \/ Crash(p)
  PROVE  Ordered'
<1>1. /\ Silently /\ UNCHANGED disk /\ recorded' = recorded
      /\ cache' = [cache EXCEPT ![p] = None]
  BY DEF Evict, Crash, working
<1>2. \A w \in Workers : scan'[w] = scan[w] \/ scan'[w] = NoScan
  BY DEF Evict, Crash, working
<1>3. \A w \in Workers : pc'[w] \in Critical => pc'[w] = pc[w] /\ mine'[w] = mine[w]
  BY DEF Evict, Crash, working, Critical
<1>4. Memory' \subseteq Memory \cup {<<>>}
  BY <1>1, <1>2, StaleMemory
<1> QED
  BY <1>1, <1>3, <1>4, ElsewhereOrdered

LEMMA InitOrdered == Init => Ordered
<1> SUFFICES ASSUME Init PROVE Ordered
  OBVIOUS
<1>1. Memory \subseteq {<<>>}
  BY DEF Init, Memory, NoScan
<1>2. MemoryOrdered
  BY <1>1, EmptySorted DEF MemoryOrdered
<1>3. InOrder(Contents)
  <2>1. InOrder(<<>>)
    BY DEF InOrder
  <2>2. file # None => file \in InitialFiles \ {None}
    BY DEF Init
  <2> QED
    BY <2>1, <2>2, StoreAssumption DEF Contents
<1>4. Numbered
  BY InitIntact DEF Intact
<1>5. AnswersInOrder
  BY DEF Init, AnswersInOrder, NoAnswer
<1> QED
  BY <1>2, <1>3, <1>4, <1>5 DEF Init, Ordered, Critical

LEMMA NextOrdered ==
  ASSUME Base, Base', Ordered, [Next]_vars
  PROVE  Ordered'
<1>1. CASE UNCHANGED vars
  <2>1. Contents' = Contents /\ Memory' = Memory
    BY <1>1 DEF vars, disk, working, Contents, Memory
  <2> QED
    BY <1>1, <2>1 DEF Ordered, Numbered, MemoryOrdered, Newest, AnswersInOrder, vars, disk, working
<1>2. CASE \E w \in Workers : Begin(w) \/ Proceed(w)
  BY <1>2, BeginOrdered, LockOrdered, ScanOrdered, AppendLineOrdered, StageOrdered, RenameOrdered,
     SaveOrdered DEF Proceed
<1>3. CASE \E p \in Procs : Evict(p) \/ Crash(p)
  BY <1>3, EvictOrdered
<1> QED
  BY <1>1, <1>2, <1>3 DEF Next

LEMMA AlwaysOrdered == Spec => [](Base /\ Ordered)
<1>1. Init => Base /\ Ordered
  BY InitBase, InitOrdered
<1>2. Base /\ Ordered /\ [Next]_vars => (Base /\ Ordered)'
  BY NextBase, NextOrdered
<1> QED
  BY <1>1, <1>2, PTL DEF Spec

\* Whatever a call returns is in time order, snapshots of one time in the order
\* they were recorded: from caches, from scans of files that are not in time
\* order, after rewrites, crashes, failures and torn lines, and although the
\* times of calls do not follow the order of the locks.
THEOREM OrderOfAnswers == Spec => []AnswersInOrder
<1>1. Base /\ Ordered => AnswersInOrder
  BY DEF Ordered
<1> QED
  BY <1>1, AlwaysOrdered, PTL

-----------------------------------------------------------------------------
(* What caches and scans say of the file *)

ExactFor(w) ==
  /\ pc[w] \in {"staging", "renaming"} \/ (pc[w] = "appending" /\ request[w].kind = "record") =>
       Exact(scan[w], Cutoff(w), Contents)
  /\ pc[w] \in {"appending", "staging", "renaming"} /\ request[w].kind = "record" =>
       (pc[w] # "appending" <=> ShouldCompact(scan[w].total, scan[w].expired))
  /\ pc[w] = "saving" => Exact(Written(w), Cutoff(w), Contents)

CallsExact == \A w \in Workers : pc[w] \in Critical => ExactFor(w)

CachesExact ==
  \A p \in Procs : cache[p] # None /\ cache[p].current =>
    Exact(cache[p].scan, cache[p].cutoff, Contents)

\* What a call has read says exactly what the file holds, and so does what it is
\* about to cache and what is cached and current.
Faithful == CallsExact /\ CachesExact

\* What others have read stays right: they have read nothing.
LEMMA OthersExact ==
  ASSUME Base', NEW w \in Workers, lock' \in {w, None}, pc'[w] \in Critical => ExactFor(w)'
  PROVE  CallsExact'
<1>1. \A u \in Workers : pc'[u] \in Critical => lock' = u
  BY DEF Base, Phases, InCall
<1> QED
  BY <1>1, StoreAssumption DEF CallsExact

LEMMA ReturnExact ==
  ASSUME Base, Base', NEW w \in Workers, NEW status, NEW window, Return(w, status, window)
  PROVE  CallsExact'
<1>1. pc'[w] = "idle" /\ lock' = None
  BY DEF Return, Goto, Base, TypeInv, CallType
<1> QED
  BY <1>1, OthersExact DEF Critical

LEMMA SameFileCaches ==
  ASSUME CachesExact, Contents' = Contents,
         \A p \in Procs : cache'[p] = None \/ cache'[p] = cache[p]
  PROVE  CachesExact'
BY DEF CachesExact

LEMMA StaleCaches ==
  ASSUME \A p \in Procs : cache'[p] = None \/ ~cache'[p].current
  PROVE  CachesExact'
BY DEF CachesExact

LEMMA BeginFaithful ==
  ASSUME Base, Faithful, NEW w \in Workers, Begin(w) \/ GiveUp(w)
  PROVE  Faithful'
<1>1. UNCHANGED <<cache, request, mine, scan, file>> /\ Contents' = Contents
  BY DEF Begin, GiveUp, disk, Contents
<1>2. \A u \in Workers : pc'[u] = pc[u] \/ pc'[u] \notin Critical
  BY DEF Begin, GiveUp, Goto, Base, TypeInv, CallType, Critical
<1>3. CallsExact'
  <2>1. ASSUME NEW u \in Workers, pc'[u] \in Critical PROVE ExactFor(u)'
    <3>1. pc'[u] = pc[u] /\ ExactFor(u)
      BY <1>2, <2>1 DEF Faithful, CallsExact
    <3>2. Cutoff(u)' = Cutoff(u) /\ Written(u)' = Written(u) /\ scan'[u] = scan[u]
      BY <1>1 DEF Cutoff, Written, Kept
    <3> QED
      BY <1>1, <3>1, <3>2 DEF ExactFor
  <2> QED
    BY <2>1 DEF CallsExact
<1> QED
  BY <1>1, <1>3, SameFileCaches DEF Faithful

LEMMA LockFaithful ==
  ASSUME Base, Base', Faithful, NEW w \in Workers, Lock(w)
  PROVE  Faithful'
<1>1. UNCHANGED cache /\ Contents' = Contents /\ lock' = w
  BY DEF Lock, disk, Contents
<1>2. PICK r \in Requests : Asks(w, r)
  BY DEF Lock
<1>3. /\ request'[w] = r
      /\ pc'[w] = IF r.kind = "append" THEN "appending" ELSE "scanning"
  BY <1>2 DEF Asks, Goto, Base, TypeInv, CallType
<1>4. ExactFor(w)'
  BY <1>3 DEF ExactFor
<1> QED
  BY <1>1, <1>4, OthersExact, SameFileCaches DEF Faithful

LEMMA FoundExact ==
  ASSUME Base, Ordered, CachesExact, NEW w \in Workers, NEW p \in Procs
  PROVE  LET c == Cutoff(w)
             found == IF Hit(p, c) THEN Narrowed(cache[p].scan, c) ELSE ScanOf(Contents, c)
         IN  Exact(found, c, Contents)
<1> DEFINE c == Cutoff(w)
<1>1. c \in Int /\ Contents \in Seq(Lines) /\ InOrder(Contents)
  BY CutoffIsTime, ContentsType DEF Base, TypeInv, Ordered
<1> HIDE DEF c
<1>2. Exact(ScanOf(Contents, c), c, Contents)
  BY <1>1, ScanExact, StoreAssumption
<1>3. ASSUME Hit(p, c) PROVE Exact(Narrowed(cache[p].scan, c), c, Contents)
  <2>1. cache[p] # None /\ cache[p] \in Caches /\ cache[p].current /\ c >= cache[p].cutoff
    BY <1>3 DEF Base, TypeInv, CacheType, Hit
  <2>2. cache[p].scan \in Scans /\ cache[p].cutoff \in Int /\ cache[p].cutoff <= c
    BY <1>1, <2>1 DEF Caches
  <2>3. Exact(cache[p].scan, cache[p].cutoff, Contents)
    BY <2>1 DEF CachesExact
  <2> QED
    BY <1>1, <2>2, <2>3, NarrowedExact, StoreAssumption
<1> QED
  BY <1>2, <1>3 DEF c

LEMMA ScanFaithful ==
  ASSUME Base, Base', Ordered, Faithful, NEW w \in Workers, Scan(w)
  PROVE  Faithful'
<1> DEFINE p == ProcOf[w]
           c == Cutoff(w)
           found == IF Hit(p, c) THEN Narrowed(cache[p].scan, c) ELSE ScanOf(Contents, c)
<1>1. p \in Procs
  BY StoreAssumption
<1>2. Exact(found, c, Contents)
  BY <1>1, FoundExact DEF Faithful
<1>3. pc[w] = "scanning" /\ pc[w] \in Critical
  BY DEF Scan, Critical
<1>4. /\ UNCHANGED disk
      /\ \/ /\ cache' = [cache EXCEPT ![p] = None]
            /\ Return(w, "error", <<>>)
         \/ /\ cache' = [cache EXCEPT ![p] = IF file = None THEN None
                                              ELSE IF Hit(p, c) THEN cache[p] ELSE Cached(c, found)]
            /\ \/ Return(w, Verdict(found), found.retained)
               \/ /\ scan' = [scan EXCEPT ![w] = found]
                  /\ Goto(w, IF request[w].kind = "prune" \/ ShouldCompact(found.total, found.expired)
                               THEN "staging" ELSE "appending")
                  /\ UNCHANGED <<lock, request, mine>>
  BY DEF Scan
<1>5. Contents' = Contents
  BY <1>4 DEF disk, Contents
<1> HIDE DEF found, c, p
<1>6. CachesExact'
  <2>1. ASSUME NEW q \in Procs, cache'[q] # None, cache'[q].current
        PROVE  Exact(cache'[q].scan, cache'[q].cutoff, Contents)
    <3>1. cache'[q] = cache[q] \/ cache'[q] = Cached(c, found)
      BY <1>1, <1>4, <2>1 DEF Base, TypeInv, CacheType
    <3>2. CASE cache'[q] = cache[q]
      BY <2>1, <3>2 DEF Faithful, CachesExact
    <3>3. CASE cache'[q] = Cached(c, found)
      <4>1. cache'[q].cutoff = c /\ cache'[q].scan = found
        BY <3>3 DEF Cached
      <4> QED
        BY <4>1, <1>2
    <3> QED
      BY <3>1, <3>2, <3>3
  <2> QED
    BY <1>5, <2>1 DEF CachesExact
<1>7. CASE \E status, window : Return(w, status, window)
  BY <1>6, <1>7, ReturnExact DEF Faithful
<1>8. ASSUME scan' = [scan EXCEPT ![w] = found],
             Goto(w, IF request[w].kind = "prune" \/ ShouldCompact(found.total, found.expired)
                       THEN "staging" ELSE "appending"),
             UNCHANGED <<lock, request, mine>>
      PROVE  Faithful'
  <2>1. /\ scan'[w] = found
        /\ pc'[w] = IF request[w].kind = "prune" \/ ShouldCompact(found.total, found.expired)
                      THEN "staging" ELSE "appending"
        /\ request'[w] = request[w]
    BY <1>8 DEF Goto, Base, TypeInv, CallType
  <2>2. Cutoff(w)' = c
    BY <2>1 DEF Cutoff, c
  <2>3. pc'[w] \in {"staging", "appending"}
    BY <2>1
  <2>4. Exact(scan'[w], Cutoff(w)', Contents')
    BY <1>2, <1>5, <2>1, <2>2
  <2>5. request'[w].kind = "record" =>
          (pc'[w] # "appending" <=> ShouldCompact(scan'[w].total, scan'[w].expired))
    BY <2>1
  <2>6. ExactFor(w)'
    BY <2>3, <2>4, <2>5 DEF ExactFor
  <2>7. lock' = w
    BY <1>3, <1>8 DEF Base, Phases, InCall
  <2> QED
    BY <1>6, <2>6, <2>7, OthersExact DEF Faithful
<1> QED
  BY <1>4, <1>7, <1>8

LEMMA AppendLineFaithful ==
  ASSUME Base, Base', Ordered, Faithful, ~TornWrites, NEW w \in Workers, AppendLine(w)
  PROVE  Faithful'
<1>1. pc[w] = "appending" /\ pc[w] \in Critical /\ lock = w
  BY DEF AppendLine, Critical, Base, Phases, InCall
<1>2. mine[w] \in Snapshots /\ mine[w] # None /\ mine[w].id = recorded
  <2>1. mine[w] \in Snapshots /\ mine[w] # None
    BY <1>1, WritingFacts
  <2>2. mine[w] = [at |-> request[w].now, id |-> recorded]
    BY <1>1, <2>1 DEF Base, Phases, InCall
  <2> QED
    BY <2>1, <2>2
<1>3. CachesExact'
  <2>1. cache' = [Outdated EXCEPT ![ProcOf[w]] = None]
    BY DEF AppendLine
  <2>2. \A p \in Procs : cache'[p] = None \/ cache'[p] = Outdated[p]
    BY <2>1 DEF Outdated
  <2> QED
    BY <2>2, OutdatedRemembers, StaleCaches DEF Base, TypeInv
<1>4. CASE \E status : Return(w, status, <<>>)
  BY <1>3, <1>4, ReturnExact DEF Faithful
<1>5. CASE /\ file' = AddLine(Contents, torn, mine[w])
           /\ request[w].kind = "record" /\ Goto(w, "saving")
           /\ UNCHANGED <<lock, request, mine, scan>>
  <2> DEFINE s == scan[w]
             new == [total |-> s.total + 1, expired |-> s.expired,
                     retained |-> Inserted(s.retained, mine[w]), corrupt |-> s.corrupt]
             lines == AddLine(Contents, FALSE, mine[w])
  <2>1. pc'[w] = "saving"
    BY <1>5 DEF Goto, Base, TypeInv, CallType
  <2>2. Exact(s, Cutoff(w), Contents) /\ ~ShouldCompact(s.total, s.expired)
    BY <1>1, <1>5 DEF Faithful, CallsExact, ExactFor
  <2>3. \A y \in Readable(Contents) : y.id < mine[w].id
    BY <1>1, <1>2 DEF Ordered, Newest
  <2>4. /\ Contents \in Seq(Lines) /\ InOrder(Contents) /\ Cutoff(w) \in Int /\ s \in Scans
    BY ContentsType, CutoffIsTime DEF Base, TypeInv, Ordered, CallType
  <2>5. Contents' = lines
    <3>1. file' = lines
      BY <1>5, NotTorn
    <3>2. lines \in Seq(Lines)
      BY <1>2, <2>4, LineAdded, StoreAssumption
    <3> QED
      BY <3>1, <3>2, StoreAssumption DEF Contents
  <2>6. Exact(new, Cutoff(w), lines)
    <3> HIDE DEF s
    <3> QED
      BY <1>2, <2>2, <2>3, <2>4, AppendedExact, StoreAssumption
  <2>7. Cutoff(w)' = Cutoff(w) /\ Written(w)' = Written(w)
    BY <1>5 DEF Cutoff, Written, Kept
  <2>8. Written(w) = new
    BY <1>2, <2>2 DEF Written, Kept
  <2> HIDE DEF new, lines
  <2>9. ExactFor(w)'
    BY <2>1, <2>5, <2>6, <2>7, <2>8 DEF ExactFor
  <2> QED
    BY <1>1, <1>3, <1>5, <2>9, OthersExact DEF Faithful
<1> QED
  BY <1>4, <1>5 DEF AppendLine

LEMMA StageFaithful ==
  ASSUME Base, Base', Faithful, NEW w \in Workers, Stage(w)
  PROVE  Faithful'
<1>1. pc[w] = "staging" /\ pc[w] \in Critical /\ lock = w
  BY DEF Stage, Critical, Base, Phases, InCall
<1>2. Contents' = Contents /\ cache' = [cache EXCEPT ![ProcOf[w]] = None]
  BY DEF Stage, disk, Contents
<1>3. CachesExact'
  BY <1>2, SameFileCaches DEF Faithful, Base, TypeInv, CacheType
<1>4. CASE Return(w, "error", <<>>)
  BY <1>3, <1>4, ReturnExact DEF Faithful
<1>5. CASE Goto(w, "renaming") /\ UNCHANGED <<lock, request, mine, scan>>
  <2>1. pc'[w] = "renaming"
    BY <1>5 DEF Goto, Base, TypeInv, CallType
  <2>2. Cutoff(w)' = Cutoff(w)
    BY <1>5 DEF Cutoff
  <2>3. ExactFor(w)
    BY <1>1 DEF Faithful, CallsExact
  <2>4. ExactFor(w)'
    BY <1>1, <1>2, <1>5, <2>1, <2>2, <2>3 DEF ExactFor
  <2> QED
    BY <1>1, <1>3, <1>5, <2>4, OthersExact DEF Faithful
<1> QED
  BY <1>4, <1>5 DEF Stage

LEMMA RenameFaithful ==
  ASSUME Base, Base', Ordered, Faithful, NEW w \in Workers, Rename(w)
  PROVE  Faithful'
<1>1. pc[w] = "renaming" /\ pc[w] \in Critical /\ lock = w
  BY DEF Rename, Critical, Base, Phases, InCall
<1>2. CASE Return(w, "error", <<>>) /\ UNCHANGED <<disk, cache>>
  <2>1. Contents' = Contents
    BY <1>2 DEF disk, Contents
  <2> QED
    BY <1>2, <2>1, SameFileCaches, ReturnExact DEF Faithful
<1>3. CASE /\ file' = Kept(w) /\ cache' = Outdated
           /\ \/ request[w].kind = "record" /\ Goto(w, "saving")
                 /\ UNCHANGED <<lock, request, mine, scan>>
              \/ \E status : Return(w, status, <<>>)
  <2>1. CachesExact'
    BY <1>3, OutdatedRemembers, StaleCaches DEF Base, TypeInv
  <2>2. CASE \E status : Return(w, status, <<>>)
    BY <2>1, <2>2, ReturnExact DEF Faithful
  <2>3. CASE request[w].kind = "record" /\ Goto(w, "saving") /\ UNCHANGED <<lock, request, mine, scan>>
    <3> DEFINE s == Kept(w)
               new == [total |-> Len(s), expired |-> 0, retained |-> s, corrupt |-> {}]
    <3>1. pc'[w] = "saving"
      BY <2>3 DEF Goto, Base, TypeInv, CallType
    <3>2. ShouldCompact(scan[w].total, scan[w].expired)
      BY <1>1, <2>3 DEF Faithful, CallsExact, ExactFor
    <3>3. Written(w) = new
      BY <3>2 DEF Written
    <3>4. Cutoff(w)' = Cutoff(w) /\ Written(w)' = Written(w)
      BY <2>3 DEF Cutoff, Written, Kept
    <3>5. s \in Seq(Snapshots) /\ Sorted(s)
      BY <1>1, KeptSorted
    <3> HIDE DEF s
    <3>6. Exact(new, Cutoff(w), s)
      BY <3>5, RewrittenExact, StoreAssumption
    <3>7. Contents' = s
      <4>1. s \in Seq(Lines)
        BY <3>5, ReadableLines, StoreAssumption
      <4> QED
        BY <1>3, <4>1, StoreAssumption DEF Contents, s
    <3> HIDE DEF new
    <3>8. ExactFor(w)'
      BY <3>1, <3>3, <3>4, <3>6, <3>7 DEF ExactFor
    <3> QED
      BY <1>1, <2>1, <2>3, <3>8, OthersExact DEF Faithful
  <2> QED
    BY <1>3, <2>2, <2>3
<1> QED
  BY <1>2, <1>3 DEF Rename

LEMMA SaveFaithful ==
  ASSUME Base, Base', Faithful, NEW w \in Workers, Save(w)
  PROVE  Faithful'
<1>1. pc[w] = "saving" /\ pc[w] \in Critical
  BY DEF Save, Critical
<1>2. Contents' = Contents /\ cache' = [cache EXCEPT ![ProcOf[w]] = Cached(Cutoff(w), Written(w))]
  BY DEF Save, disk, Contents
<1>3. Exact(Written(w), Cutoff(w), Contents)
  BY <1>1 DEF Faithful, CallsExact, ExactFor
<1>4. CachesExact'
  <2>1. ASSUME NEW q \in Procs, cache'[q] # None, cache'[q].current
        PROVE  Exact(cache'[q].scan, cache'[q].cutoff, Contents)
    <3>1. cache'[q] = cache[q] \/ cache'[q] = Cached(Cutoff(w), Written(w))
      BY <1>2, <2>1 DEF Base, TypeInv, CacheType
    <3>2. CASE cache'[q] = cache[q]
      BY <2>1, <3>2 DEF Faithful, CachesExact
    <3>3. CASE cache'[q] = Cached(Cutoff(w), Written(w))
      <4>1. cache'[q].cutoff = Cutoff(w) /\ cache'[q].scan = Written(w)
        BY <3>3 DEF Cached
      <4> QED
        BY <4>1, <1>3
    <3> QED
      BY <3>1, <3>2, <3>3
  <2> QED
    BY <1>2, <2>1 DEF CachesExact
<1> QED
  BY <1>4, ReturnExact DEF Save, Faithful

LEMMA EvictFaithful ==
  ASSUME Base, Base', Faithful, NEW p \in Procs, Evict(p) \/ Crash(p)
  PROVE  Faithful'
<1>1. Contents' = Contents /\ cache' = [cache EXCEPT ![p] = None]
  BY DEF Evict, Crash, disk, Contents
<1>2. CachesExact'
  BY <1>1, SameFileCaches DEF Faithful, Base, TypeInv, CacheType
<1>3. CallsExact'
  <2>1. ASSUME NEW u \in Workers, pc'[u] \in Critical PROVE ExactFor(u)'
    <3>1. /\ pc'[u] = pc[u] /\ request'[u] = request[u]
          /\ mine'[u] = mine[u] /\ scan'[u] = scan[u]
      BY <2>1 DEF Evict, Crash, Critical, working
    <3>2. ExactFor(u)
      BY <2>1, <3>1 DEF Faithful, CallsExact
    <3>3. Cutoff(u)' = Cutoff(u) /\ Written(u)' = Written(u)
      BY <3>1 DEF Cutoff, Written, Kept
    <3> QED
      BY <1>1, <3>1, <3>2, <3>3 DEF ExactFor
  <2> QED
    BY <2>1 DEF CallsExact
<1> QED
  BY <1>2, <1>3 DEF Faithful

LEMMA InitFaithful == Init => Faithful
BY DEF Init, Faithful, CallsExact, CachesExact, Critical

LEMMA NextFaithful ==
  ASSUME ~TornWrites, Base, Base', Ordered, Faithful, [Next]_vars
  PROVE  Faithful'
<1>1. CASE UNCHANGED vars
  <2>1. Contents' = Contents /\ UNCHANGED <<pc, request, mine, scan, cache>>
    BY <1>1 DEF vars, disk, working, Contents
  <2>2. CachesExact'
    BY <2>1, SameFileCaches DEF Faithful
  <2>3. \A u \in Workers : Cutoff(u)' = Cutoff(u) /\ Written(u)' = Written(u)
    BY <2>1 DEF Cutoff, Written, Kept
  <2>4. CallsExact'
    BY <2>1, <2>3 DEF Faithful, CallsExact, ExactFor
  <2> QED
    BY <2>2, <2>4 DEF Faithful
<1>2. CASE \E w \in Workers : Begin(w) \/ Proceed(w)
  BY <1>2, BeginFaithful, LockFaithful, ScanFaithful, AppendLineFaithful, StageFaithful,
     RenameFaithful, SaveFaithful DEF Proceed
<1>3. CASE \E p \in Procs : Evict(p) \/ Crash(p)
  BY <1>3, EvictFaithful
<1> QED
  BY <1>1, <1>2, <1>3 DEF Next

LEMMA AlwaysFaithful ==
  ASSUME ~TornWrites
  PROVE  Spec => [](Base /\ Intact /\ Ordered /\ Faithful)
<1>1. Init => Base /\ Intact /\ Ordered /\ Faithful
  BY InitBase, InitIntact, InitOrdered, InitFaithful
<1>2. Base /\ Intact /\ Ordered /\ Faithful /\ [Next]_vars => (Base /\ Intact /\ Ordered /\ Faithful)'
  BY NextBase, NextIntact, NextOrdered, NextFaithful
<1> QED
  BY <1>1, <1>2, PTL DEF Spec

LEMMA FaithfulCaches == Base /\ Ordered /\ Faithful => CacheExact
<1> SUFFICES ASSUME Base, Ordered, Faithful,
                    NEW p \in Procs, NEW now \in Times, NEW d \in Spans, Hit(p, now - d)
             PROVE  Narrowed(cache[p].scan, now - d) = ScanOf(Contents, now - d)
  BY DEF CacheExact
<1> DEFINE c == now - d
           s == Narrowed(cache[p].scan, c)
           t == ScanOf(Contents, c)
           F == Readable(Contents)
<1>1. c \in Int
  BY StoreAssumption
<1> HIDE DEF c
<1>2. Hit(p, c)
  BY DEF c
<1>3. /\ cache[p] \in Caches /\ cache[p].scan \in Scans /\ cache[p].cutoff \in Int
      /\ cache[p].cutoff <= c /\ Exact(cache[p].scan, cache[p].cutoff, Contents)
  <2>1. cache[p] # None /\ cache[p] \in Caches /\ cache[p].current /\ c >= cache[p].cutoff
    BY <1>2 DEF Base, TypeInv, CacheType, Hit
  <2> QED
    BY <1>1, <2>1 DEF Caches, Faithful, CachesExact
<1>4. Contents \in Seq(Lines) /\ InOrder(Contents)
  BY ContentsType DEF Base, TypeInv, Ordered
<1>5. s \in Scans /\ Exact(s, c, Contents)
  BY <1>1, <1>3, <1>4, NarrowedRetains, NarrowedExact, StoreAssumption
<1>6. t \in Scans /\ Exact(t, c, Contents)
  BY <1>1, <1>4, ScanRetains, ScanExact, StoreAssumption
<1>7. Elements(s.retained) = Elements(t.retained)
  <2>1. Elements(s.retained) = {x \in Elements(cache[p].scan.retained) : x.at > c}
    BY <1>1, <1>3, NarrowedRetains
  <2>2. Elements(t.retained) = {x \in F : x.at > c}
    BY <1>1, <1>4, ScanRetains, StoreAssumption
  <2>3. \A x \in F : x.at \in Nat
    <3>1. F \subseteq Snapshots
      BY ReadableIsSnapshots DEF Base, TypeInv
    <3> QED
      BY <3>1 DEF Snapshots
  <2>4. /\ Elements(cache[p].scan.retained) \subseteq F
        /\ \A x \in F : x.at > cache[p].cutoff => x \in Elements(cache[p].scan.retained)
    BY <1>3 DEF Exact
  <2> QED
    BY <1>1, <1>3, <2>1, <2>2, <2>3, <2>4
<1>8. s = t
  <2> HIDE DEF s, t
  <2> QED
    BY <1>5, <1>6, <1>7, ExactUnique
<1> QED
  BY <1>8 DEF c

\* A cached scan that may be used says what a new scan of the file would say, in
\* every detail, through every later cutoff: after records and rewrites of this
\* process and of others, failures, crashes, evictions and damaged lines.
THEOREM CachesAreInvisible ==
  ASSUME ~TornWrites
  PROVE  Spec => []CacheExact
<1>1. Base /\ Intact /\ Ordered /\ Faithful => CacheExact
  BY FaithfulCaches
<1> QED
  BY <1>1, AlwaysFaithful, PTL

LEMMA FaithfulBounds ==
  ASSUME Base, Intact, Ordered, Faithful, NEW w \in Workers, pc[w] = "saving", Expired(w) # {}
  PROVE  /\ Cardinality(Expired(w)) < CompactAt
         /\ 2 * Cardinality(Expired(w)) < Cardinality(OnDiskBefore(w))
<1> DEFINE F == Readable(Contents)
           m == mine[w]
           c == Cutoff(w)
           G == {x \in F : x.at <= c} \ {m}
<1>0. pc[w] \in Critical
  BY DEF Critical
<1>1. Contents \in Seq(Lines) /\ InOrder(Contents) /\ F \subseteq Snapshots /\ c \in Int
  BY ContentsType, ReadableIsSnapshots, CutoffIsTime DEF Base, TypeInv, Ordered
<1>2. m \in F /\ m # None /\ Elements(scan[w].retained) \cup {m} = Fresh(w) \cup {m}
  BY <1>0, WritingFacts DEF Intact, CallersKnow, Knows
<1>3. file # None /\ Contents = file
  <2>1. Readable(<<>>) = {}
    BY DEF Readable
  <2> QED
    BY <1>2, <2>1 DEF Contents
<1>4. \A x \in F : x # Corrupt /\ x.at \in Nat
  BY <1>1, StoreAssumption DEF Snapshots
<1>5. \A i \in DOMAIN Contents : Contents[i] # Corrupt <=> Contents[i] \in F
  BY <1>4 DEF Readable
<1>6. /\ OnDiskBefore(w) = {i \in DOMAIN Contents : Contents[i] \in F \ {m}}
      /\ Expired(w) = {i \in DOMAIN Contents : Contents[i] \in G}
  <2>1. OnDiskBefore(w) = {i \in DOMAIN Contents : Contents[i] # Corrupt /\ Contents[i] # m}
    BY <1>3 DEF OnDiskBefore
  <2>2. Expired(w) = {i \in OnDiskBefore(w) : Contents[i].at <= c}
    BY <1>3 DEF Expired
  <2>3. OnDiskBefore(w) = {i \in DOMAIN Contents : Contents[i] \in F \ {m}}
    BY <1>5, <2>1
  <2> QED
    BY <2>2, <2>3
<1>7. /\ Cardinality(OnDiskBefore(w)) = Cardinality(F \ {m})
      /\ IsFiniteSet(G) /\ Cardinality(Expired(w)) = Cardinality(G)
  <2>1. F \ {m} \in SUBSET (F \cap Snapshots) /\ G \in SUBSET (F \cap Snapshots)
    BY <1>1
  <2> HIDE DEF G
  <2> QED
    BY <1>1, <1>6, <2>1, PositionsCount
<1>8. IsFiniteSet(F) /\ Cardinality(F) \in Nat /\ Cardinality(F \ {m}) = Cardinality(F) - 1
  <2>1. IsFiniteSet(F)
    BY <1>1, GoodLines, StoreAssumption
  <2> QED
    BY <1>2, <2>1, FS_RemoveElement, FS_CardinalityType
<1>9. Written(w).total = Cardinality(F) /\ Written(w).expired = Cardinality(G)
  <2>1. Exact(Written(w), c, Contents)
    BY <1>0 DEF Faithful, CallsExact, ExactFor
  <2>2. Elements(Written(w).retained) = Fresh(w) \cup {m}
    BY <1>2, KeptElements, WrittenType DEF Base, TypeInv
  <2>3. F \ (Fresh(w) \cup {m}) = G
    BY <1>1, <1>4 DEF Fresh
  <2> HIDE DEF G
  <2> QED
    BY <2>1, <2>2, <2>3 DEF Exact
<1>10. G # {} /\ Cardinality(G) \in Nat /\ Cardinality(G) # 0
  <2>1. G # {}
    BY <1>6
  <2> HIDE DEF G
  <2> QED
    BY <1>7, <2>1, FS_EmptySet, FS_CardinalityType
<1> HIDE DEF G, F, m
<1>11. ~ShouldCompact(scan[w].total, scan[w].expired)
  <2>1. ASSUME ShouldCompact(scan[w].total, scan[w].expired) PROVE Written(w).expired = 0
    BY <2>1 DEF Written
  <2> QED
    BY <1>9, <1>10, <2>1
<1>12. /\ scan[w].expired = Cardinality(G) /\ scan[w].total + 1 = Cardinality(F)
       /\ scan[w].total \in Nat
  <2>1. scan[w].total \in Nat
    BY DEF Base, TypeInv, CallType, Scans
  <2> QED
    BY <1>9, <1>11, <2>1 DEF Written
<1>13. CompactAt \in Nat
  BY StoreAssumption
<1>14. Cardinality(G) < CompactAt /\ 2 * Cardinality(G) < Cardinality(F) - 1
  BY <1>8, <1>10, <1>11, <1>12, <1>13 DEF ShouldCompact
<1> QED
  BY <1>7, <1>8, <1>14

\* When a record returns, what the file holds beyond the call's retention is
\* less than the compaction threshold and less than half of what else it holds,
\* whoever wrote it and whichever call read it last.
THEOREM GarbageStaysBounded ==
  ASSUME ~TornWrites
  PROVE  Spec => GarbageBounded
<1>1. Base /\ Intact /\ Ordered /\ Faithful => \A w \in Workers : GarbageBoundedBy(w)
  BY FaithfulBounds DEF GarbageBoundedBy
<1> QED
  BY <1>1, AlwaysFaithful, PTL DEF GarbageBounded

==============================================================================
