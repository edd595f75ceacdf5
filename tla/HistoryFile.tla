---------------------------- MODULE HistoryFile -----------------------------
(* One JSONL history file as the health store reads it: a sequence of lines,
   each a snapshot or text that does not decode, and the scan that classifies
   the lines against a cutoff.  A snapshot is its time and the order in which
   it was recorded; the payload is left out.  Times are whole numbers.
   Sources: internal/history/store.go, internal/history/scan_cache.go. *)
EXTENDS Integers, Sequences, FiniteSets

CONSTANTS Corrupt,     \* a line that does not decode
          CompactAt    \* expired lines that force a rewrite (64 in the code)

Snapshots == [at : Nat, id : Nat]
Lines     == Snapshots \cup {Corrupt}
Scans     == [total : Nat, expired : Nat, retained : Seq(Snapshots), corrupt : SUBSET Nat]

\* A line that lost its newline swallows the next one: neither decodes.
AddLine(lines, torn, line) ==
  IF torn THEN [lines EXCEPT ![Len(lines)] = Corrupt] ELSE Append(lines, line)

\* Snapshots in time order, those of one time in file order (sort.SliceStable).
Earlier(s, i, j) == s[i].at < s[j].at \/ (s[i].at = s[j].at /\ i < j)
InTimeOrder(s) ==
  [k \in 1 .. Len(s) |->
     s[CHOOSE i \in 1 .. Len(s) : Cardinality({j \in 1 .. Len(s) : Earlier(s, j, i)}) = k - 1]]

\* The elements of a sequence that are in a set, in their order.
Among(s, S) ==
  LET chosen[n \in 0 .. Len(s)] ==
        IF n = 0 THEN <<>>
        ELSE IF s[n] \in S THEN Append(chosen[n - 1], s[n]) ELSE chosen[n - 1]
  IN  chosen[Len(s)]

After(s, cutoff)  == Among(s, {x \in Snapshots : x.at > cutoff})
UpTo(s, cutoff)   == Among(s, {x \in Snapshots : x.at <= cutoff})
NotBefore(s, t)   == Among(s, {x \in Snapshots : x.at >= t})

\* scanHistoryFile: what decodes is counted and, if newer than the cutoff,
\* kept; what does not is remembered by its line number.
ScanOf(lines, cutoff) ==
  LET good == Among(lines, Snapshots) IN
  [total    |-> Len(good),
   expired  |-> Len(UpTo(good, cutoff)),
   retained |-> InTimeOrder(After(good, cutoff)),
   corrupt  |-> {i \in DOMAIN lines : lines[i] = Corrupt}]

\* Mutant: the projection subtracts what it drops.
NarrowedWrongly(scan, cutoff) ==
  [scan EXCEPT !.retained = After(@, cutoff),
               !.expired = @ - Len(UpTo(scan.retained, cutoff))]

\* scanCache.load: a cached scan seen through a later cutoff.
Narrowed(scan, cutoff) ==
  [scan EXCEPT !.retained = After(@, cutoff),
               !.expired = @ + Len(UpTo(scan.retained, cutoff))]

\* Mutant: the new snapshot goes before those of the same time.
InsertedBefore(s, x) ==
  Among(s, {y \in Snapshots : y.at < x.at}) \o <<x>> \o NotBefore(s, x.at)

\* RecordAndLoad: the new snapshot goes after those of the same time.
Inserted(s, x) == UpTo(s, x.at) \o <<x>> \o After(s, x.at)

\* Mutant: rewrite only when everything has expired.
ShouldCompactLate(total, expired) == expired > 0 /\ expired = total

\* A rewrite is due when enough lines, or half of them, have expired.
ShouldCompact(total, expired) ==
  expired > 0 /\ (expired >= CompactAt \/ 2 * expired >= total)

\* The snapshots a reader of the file can decode.
Readable(lines) == {lines[i] : i \in DOMAIN lines} \ {Corrupt}

\* Snapshots of one time were recorded in the order of their lines.
InOrder(lines) ==
  \A i, j \in DOMAIN lines :
    i < j /\ {lines[i], lines[j]} \subseteq Snapshots /\ lines[i].at = lines[j].at
      => lines[i].id < lines[j].id

=============================================================================
