---------------------------- MODULE SnapshotLog -----------------------------
(* The promise of the health store, without files, locks and caches: a set of
   snapshots.  A call may store its snapshot, may forget expired ones while it
   does, and returns what the set holds at that moment, or an error. *)
EXTENDS Integers

CONSTANTS Workers, Requests, NoCall, None

VARIABLES
  log,        \* the snapshots stored
  request,    \* each worker's call, or NoCall
  own,        \* the snapshot it records, or None
  recorded,   \* number of snapshots handed out
  answer      \* what the last step returned to which worker, if it did

vars == <<log, request, own, recorded, answer>>

NoAnswer == [to |-> None, status |-> "none", window |-> {}]
Silently == answer' = NoAnswer

Init ==
  /\ request = [w \in Workers |-> NoCall]
  /\ own = [w \in Workers |-> None]
  /\ answer = NoAnswer

Cutoff(w)       == request[w].now - request[w].retention
Fresh(w)        == {x \in log : x.at > Cutoff(w)}
Storing(w)      == request[w].kind \in {"append", "record"}

\* A call gets its turn; a snapshot to store gets the next number.
Ask(w) ==
  /\ request[w] = NoCall
  /\ \E r \in Requests :
       /\ request' = [request EXCEPT ![w] = r]
       /\ \/ /\ r.kind \in {"append", "record"}
             /\ own' = [own EXCEPT ![w] = [at |-> r.now, id |-> recorded + 1]]
             /\ recorded' = recorded + 1
          \/ r.kind \notin {"append", "record"} /\ UNCHANGED <<own, recorded>>
  /\ Silently
  /\ UNCHANGED log

\* Its effect: to store its snapshot once, forgetting expired ones or not; a
\* prune forgets them.
Effect(w) ==
  \/ UNCHANGED log
  \/ /\ own[w] # None /\ own[w] \notin log
     /\ \/ log' = log \cup {own[w]}
        \/ request[w].kind = "record" /\ log' = Fresh(w) \cup {own[w]}
  \/ request[w].kind = "prune" /\ log' = Fresh(w)

\* What it may return then.
Window(w) ==
  CASE request[w].kind = "load" -> {x \in log' : x.at > Cutoff(w)}
    [] request[w].kind = "record" ->
         {x \in log' : /\ x.at > Cutoff(w) \/ x = own[w]
                       /\ x.at >= request[w].now - request[w].since}
    [] OTHER -> {}

Done(w) ==
  /\ Storing(w) => own[w] \in log'
  /\ request[w].kind = "prune" => \A x \in log' : x.at > Cutoff(w)
  /\ answer' = [to |-> w, status |-> "ok", window |-> Window(w)]

Failed(w) == answer' = [to |-> w, status |-> "error", window |-> {}]

Perform(w) ==
  /\ request[w] # NoCall /\ Effect(w)
  /\ \/ Silently /\ UNCHANGED <<request, own>>
     \/ /\ Done(w) \/ Failed(w)
        /\ request' = [request EXCEPT ![w] = NoCall]
        /\ own' = [own EXCEPT ![w] = None]
  /\ UNCHANGED recorded

\* A call is turned away before its turn.
Refuse(w) == request[w] = NoCall /\ Failed(w) /\ UNCHANGED <<log, request, own, recorded>>

\* Callers die; what they had stored stays.
Die(W) ==
  /\ request' = [w \in Workers |-> IF w \in W THEN NoCall ELSE request[w]]
  /\ own' = [w \in Workers |-> IF w \in W THEN None ELSE own[w]]
  /\ Silently
  /\ UNCHANGED <<log, recorded>>

Next ==
  \/ \E w \in Workers : Ask(w) \/ Perform(w) \/ Refuse(w)
  \/ \E W \in SUBSET Workers : Die(W)

Spec == Init /\ [][Next]_vars

=============================================================================
