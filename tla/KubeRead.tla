------------------------------ MODULE KubeRead ------------------------------
(***************************************************************************)
(* The read layer shared by every command (src/internal/kube): a read is a *)
(* call to the API server that is retried while it fails transiently, and  *)
(* a list is a walk over pages that follow one another by continue tokens. *)
(* An answer is what one HTTP call ends with.                              *)
(***************************************************************************)
EXTENDS Integers, Sequences

(***************************************************************************)
(* "ok": the object or page; "missing": NotFound; "busy": 429, 5xx or a     *)
(* network timeout; "refused": any other error, an expired continue token  *)
(* and a cancelled context included.                                       *)
(***************************************************************************)
Answers == {"ok", "missing", "busy", "refused"}

RetryAttempts == 3

\* The exit code of a command that has not ended.
NoExit == -1

IsTransient(answer) == answer = "busy"

\* Whether the call goes out again after its attempt number `tries` ended.
RetriesAfter(tries, answer) == IsTransient(answer) /\ tries < RetryAttempts

\* Mutant: the guard is lost.
NeverRepeated(followed, next) == FALSE

(***************************************************************************)
(* A continue token already followed ends a walk with an error, so that a  *)
(* server that hands out the same token forever cannot keep it going.      *)
(***************************************************************************)
RepeatedToken(followed, next) == next \in followed

(***************************************************************************)
(* What an answer means to the reader.  An HPA that is NotFound does not   *)
(* exist, which is not the same as a refused read, and a cluster whose     *)
(* autoscaler is NotFound runs none; for every other object it is a failed *)
(* read.  A list that is empty is known to be empty.                       *)
(***************************************************************************)
ReadValue(read, answer) ==
  CASE answer = "ok" -> "known"
    [] answer = "missing" /\ read \in {"hpa", "autoscaler"} -> "nothing"
    [] OTHER -> "failed"
=============================================================================
