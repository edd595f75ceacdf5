----------------------------- MODULE MCTuiModel -----------------------------
(* Small instances of TuiModel: r1 and r2 may be applied, n is advisory. *)
EXTENDS TuiModel

CONSTANTS r1, r2, n1

AnyFixes == {<<>>, <<r1>>, <<n1, r2>>}
OneFix   == {<<>>, <<r1>>}

=============================================================================
