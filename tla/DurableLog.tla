----------------------------- MODULE DurableLog -----------------------------
(***************************************************************************)
(* What a document promises its authors: an append-only text, and a stored *)
(* copy that is always an earlier state of it and never goes back.  Only   *)
(* a crash may take the text back, and then to the stored copy.            *)
(***************************************************************************)
EXTENDS Naturals, Sequences

CONSTANT Item

VARIABLES log, stored, crashed

IsPrefix(s, t) == Len(s) <= Len(t) /\ s = SubSeq(t, 1, Len(s))

Init == log = <<>> /\ stored = <<>> /\ crashed = 0

Extend ==
    /\ \E x \in Item : log' = Append(log, x)
    /\ UNCHANGED <<stored, crashed>>

Persist ==
    /\ IsPrefix(stored, stored') /\ IsPrefix(stored', log)
    /\ UNCHANGED <<log, crashed>>

Crash ==
    /\ log' = stored
    /\ crashed' = crashed + 1
    /\ UNCHANGED stored

Next == Extend \/ Persist \/ Crash

Spec == Init /\ [][Next]_<<log, stored, crashed>>
=============================================================================
