----------------------------- MODULE Envelopes ------------------------------
(***************************************************************************)
(* The envelopes of an encrypted document: for each user that may decrypt  *)
(* it the document's key, wrapped for that user.  They are written over    *)
(* REST (src/fiduswriter/document/views.py, 2195 and 2300-2450), when a    *)
(* contact is dropped (src/fiduswriter/user/views.py), and all of them     *)
(* anew when the owner changes the key (handle_e2ee_rekey in               *)
(* src/fiduswriter/document/consumers.py).                                 *)
(*                                                                         *)
(* A key is the number of its epoch; how it is wrapped makes no            *)
(* difference here.  What the owner's and the holders' browsers know of    *)
(* the key is part of the model, the browsers are not.                     *)
(***************************************************************************)
EXTENDS Integers, FiniteSets

CONSTANTS Partners,      \* users with whom the document may be shared
          MaxEpoch,      \* bound on the changes of the key
          MaxRows        \* bound on the envelopes created

ASSUME EnvelopesAssumption == MaxEpoch \in Nat \ {0} /\ MaxRows \in Nat /\ "owner" \notin Partners

VARIABLES
    calm,        \* is the key changed only while no other request runs?
    epoch,       \* the key of the document
    envelope,    \* the envelope of each user: id of the row and key in it
    mayRead,     \* those with a right
    knowsKey,    \* the key each user's browser has
    request,     \* the rest of each user's REST request
    rekeying,    \* the owner's change of the key: for whom, and how far
    lastRow      \* number of the last row

envelopeVars == <<calm, epoch, envelope, mayRead, knowsKey, request, rekeying, lastRow>>

Parties == Partners \cup {"owner"}
NoEnvelope == [id |-> 0, key |-> 0]
NoRequest == [at |-> "none"]
NotRekeying == [at |-> "none"]

EnvelopesInit ==
    /\ calm \in BOOLEAN
    /\ epoch = 1
    /\ envelope = [u \in Parties |-> IF u = "owner" THEN [id |-> 1, key |-> 1] ELSE NoEnvelope]
    /\ mayRead = {}
    /\ knowsKey = [u \in Parties |-> IF u = "owner" THEN 1 ELSE 0]
    /\ request = [u \in Parties |-> NoRequest]
    /\ rekeying = NotRekeying
    /\ lastRow = 1

HasEnvelope(u) == envelope[u] # NoEnvelope
HasRight(u) == u = "owner" \/ u \in mayRead

-----------------------------------------------------------------------------
(* Rights.                                                                 *)

\* save_access_rights gives a right; the key is the browsers' affair.
Share(u) ==
    /\ u \in Partners \ mayRead
    /\ mayRead' = mayRead \cup {u}
    /\ UNCHANGED <<calm, epoch, envelope, knowsKey, request, rekeying, lastRow>>

\* save_access_rights takes a right away.  Its helper holder_type_id_matches_user raises,
\* as it is wrapped like a view: the envelope stays.
Revoke(u) ==
    /\ u \in mayRead
    /\ mayRead' = mayRead \ {u}
    /\ UNCHANGED <<calm, epoch, envelope, knowsKey, request, rekeying, lastRow>>

\* delete_contacts takes the right, ...
DropContact(u) ==
    /\ u \in mayRead /\ request["owner"] = NoRequest
    /\ mayRead' = mayRead \ {u}
    /\ request' = [request EXCEPT !["owner"] = [at |-> "drop", of |-> u]]
    /\ UNCHANGED <<calm, epoch, envelope, knowsKey, rekeying, lastRow>>

\* ... and then the envelope.
DropEnvelope ==
    /\ request["owner"].at = "drop"
    /\ envelope' = [envelope EXCEPT ![request["owner"].of] = NoEnvelope]
    /\ request' = [request EXCEPT !["owner"] = NoRequest]
    /\ UNCHANGED <<calm, epoch, mayRead, knowsKey, rekeying, lastRow>>

-----------------------------------------------------------------------------
(* Envelopes.                                                              *)

\* get_user_document_encryption_keys hands out the envelope of whoever may still read, ...
Handed(u) == HasEnvelope(u) /\ HasRight(u)

\* ... and so does get_document_encryption_key.
FetchKey(u) ==
    /\ Handed(u)
    /\ knowsKey' = [knowsKey EXCEPT ![u] = envelope[u].key]
    /\ UNCHANGED <<calm, epoch, envelope, mayRead, request, rekeying, lastRow>>

\* save_document_encryption_key: the owner writes for anybody, others for themselves.  A
\* row is created, or, when there is one, fetched ...
SaveKey(u, h) ==
    /\ request[u] = NoRequest /\ knowsKey[u] # 0
    /\ u = "owner" \/ (h = u /\ HasRight(u))
    /\ IF HasEnvelope(h)
       THEN /\ request' = [request EXCEPT ![u] =
                  [at |-> "save", of |-> h, id |-> envelope[h].id, key |-> knowsKey[u]]]
            /\ UNCHANGED <<envelope, lastRow>>
       ELSE /\ lastRow < MaxRows /\ lastRow' = lastRow + 1
            /\ envelope' = [envelope EXCEPT ![h] = [id |-> lastRow', key |-> knowsKey[u]]]
            /\ UNCHANGED request
    /\ UNCHANGED <<calm, epoch, mayRead, knowsKey, rekeying>>

\* update_document_encryption_key: the owner or the holder names a row, which is fetched ...
UpgradeKey(u, h) ==
    /\ request[u] = NoRequest /\ knowsKey[u] # 0
    /\ u = "owner" \/ h = u
    /\ HasEnvelope(h)
    /\ request' = [request EXCEPT ![u] =
          [at |-> "save", of |-> h, id |-> envelope[h].id, key |-> knowsKey[u]]]
    /\ UNCHANGED <<calm, epoch, envelope, mayRead, knowsKey, rekeying, lastRow>>

\* ... and saved, all fields of it: a row that is gone comes back, unless there is another
\* one by now (unique_together).
WriteKey(u) ==
    /\ request[u].at = "save"
    /\ LET r == request[u] IN
       envelope' = [envelope EXCEPT ![r.of] =
          IF envelope[r.of].id \in {0, r.id} THEN [id |-> r.id, key |-> r.key] ELSE @]
    /\ request' = [request EXCEPT ![u] = NoRequest]
    /\ UNCHANGED <<calm, epoch, mayRead, knowsKey, rekeying, lastRow>>

-----------------------------------------------------------------------------
(* A new key.                                                              *)

\* get_document_encryption_key_holders: whose envelopes are to be replaced.
ListHolders ==
    /\ rekeying.at = "none" /\ epoch < MaxEpoch
    /\ rekeying' = [at |-> "listed", for |-> {u \in Parties : HasEnvelope(u)}]
    /\ UNCHANGED <<calm, epoch, envelope, mayRead, knowsKey, request, lastRow>>

\* fault: the envelopes there are now are not compared with the list
AnyHolders(us) == us \subseteq Parties

\* Every holder gets a new envelope, and nobody without a right does.
CoversHolders(us) ==
    /\ {u \in Parties : HasEnvelope(u)} \subseteq us
    /\ \A u \in us : HasRight(u)

Undisturbed == \A u \in Parties : request[u] = NoRequest

\* handle_e2ee_rekey compares ...
CheckRekey ==
    /\ rekeying.at = "listed"
    /\ calm => Undisturbed
    /\ rekeying' = IF CoversHolders(rekeying.for) THEN [rekeying EXCEPT !.at = "checked"]
                   ELSE NotRekeying
    /\ UNCHANGED <<calm, epoch, envelope, mayRead, knowsKey, request, lastRow>>

\* ... and writes in one transaction.  Everybody at the document has to load it again.
ApplyRekey ==
    /\ rekeying.at = "checked"
    /\ epoch' = epoch + 1
    /\ envelope' = [u \in Parties |->
          IF u \notin rekeying.for THEN envelope[u]
          ELSE [id |-> IF HasEnvelope(u) THEN envelope[u].id ELSE lastRow + 1, key |-> epoch']]
    /\ lastRow' = IF \E u \in rekeying.for : ~HasEnvelope(u) THEN lastRow + 1 ELSE lastRow
    /\ knowsKey' = [u \in Parties |-> IF u = "owner" THEN epoch' ELSE IF calm THEN 0 ELSE knowsKey[u]]
    /\ rekeying' = NotRekeying
    /\ UNCHANGED <<calm, mayRead, request>>

\* While the key is changed no other request is served, if all is calm.
EnvelopesNext ==
    \/ /\ calm => rekeying.at # "checked"
       /\ \/ \E u \in Partners : Share(u) \/ Revoke(u) \/ DropContact(u)
          \/ \E u \in Parties : FetchKey(u) \/ WriteKey(u)
          \/ \E u \in Parties, h \in Parties : SaveKey(u, h) \/ UpgradeKey(u, h)
          \/ DropEnvelope
    \/ ListHolders \/ CheckRekey \/ ApplyRekey

EnvelopesSpec == EnvelopesInit /\ [][EnvelopesNext]_envelopeVars

-----------------------------------------------------------------------------
EnvelopesTypeOK ==
    /\ calm \in BOOLEAN /\ epoch \in 1..MaxEpoch
    /\ envelope \in [Parties -> [id : 0..(MaxRows + MaxEpoch), key : 0..MaxEpoch]]
    /\ mayRead \subseteq Partners /\ knowsKey \in [Parties -> 0..MaxEpoch]
    /\ rekeying.at \in {"none", "listed", "checked"}

\* If the key is changed while nothing else is under way, and browsers forget the old key,
\* every envelope holds the key of the document.  (An envelope saved over REST from a key
\* fetched before the change takes the place of the new one: nothing compares them.)
EnvelopesCurrent == calm => \A u \in Parties : HasEnvelope(u) => envelope[u].key = epoch
=============================================================================
