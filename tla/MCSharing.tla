------------------------------ MODULE MCSharing ------------------------------
(***************************************************************************)
(* Instances of Sharing for TLC: one person, one guest and one share link. *)
(* The set-ups raise one bound at a time: three requests in turn next to a *)
(* connection, two requests at once, rights that are read now and then     *)
(* only, and an encrypted document.                                        *)
(***************************************************************************)
EXTENDS Sharing

CONSTANTS person, guest

Grant(r) == [who |-> person, as |-> "user", rights |-> r]
GrantInvited(r) == [who |-> person, as |-> "invite", rights |-> r]

MCOrders == {<<Grant("write")>>, <<Grant("read")>>, <<GrantInvited("review")>>,
             <<Grant("review"), GrantInvited("delete")>>,
             <<GrantInvited("read"), Grant("read")>>}

Setting(lazy, encrypted, workers, requestBound, connectBound, frameBound) ==
    [lazy |-> lazy, encrypted |-> encrypted, workers |-> workers,
     requests |-> requestBound, connects |-> connectBound, frames |-> frameBound]

MCSettings == {Setting(FALSE, FALSE, 1, 3, 1, 1), Setting(TRUE, FALSE, 1, 2, 1, 2),
               Setting(FALSE, FALSE, 2, 2, 1, 0), Setting(FALSE, TRUE, 2, 2, 1, 0)}
=============================================================================
