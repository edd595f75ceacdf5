---------------------------- MODULE MCHealthStore ---------------------------
(* Small instances of HealthStore. *)
EXTENDS HealthStore, TLC

\* Each worker a process of its own.
OneEach == [w \in Workers |-> w]

\* All but one worker in one process.
Alone     == CHOOSE w \in Workers : TRUE
Shared    == CHOOSE p \in Procs : TRUE
TwoAndOne == [w \in Workers |-> IF w = Alone THEN CHOOSE p \in Procs \ {Shared} : TRUE ELSE Shared]

Snap(t, n) == [at |-> t, id |-> n]

\* A snapshot behind a damaged line; a file out of time order; or nothing yet.
Damaged == {<<Corrupt, Snap(1, 2)>>, <<Snap(1, 1), Snap(0, 2)>>}
Found   == {None} \cup Damaged

Interchangeable == Permutations(Workers)

=============================================================================
