--------------------------- MODULE MCNativeSession ---------------------------
(***************************************************************************)
(* Instances of NativeSession for TLC: an author and a reader.  Alone, a   *)
(* client may do more; together, one bound at a time is raised.            *)
(***************************************************************************)
EXTENDS NativeSession

CONSTANTS author, reader

Scenario(solo, diffs, connects, changes) ==
    [solo |-> solo, diffs |-> diffs, connects |-> connects, changes |-> changes]

MCScenarios == {Scenario(TRUE, 3, 3, 1), Scenario(FALSE, 2, 2, 0),
                Scenario(FALSE, 1, 2, 1), Scenario(FALSE, 0, 3, 1)}

\* Two rights are withdrawn, nothing is written.
MCWithdrawals == {Scenario(FALSE, 0, 2, 2)}
=============================================================================
