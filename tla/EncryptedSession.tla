-------------------------- MODULE EncryptedSession --------------------------
(***************************************************************************)
(* An end-to-end encrypted document in its editing session.  The server   *)
(* cannot apply diffs: it keeps them in order, next to the last encrypted  *)
(* snapshot a client sent, and a reader starts from the snapshot and       *)
(* replays the diffs.  Everything is encrypted under a key epoch (salt and *)
(* iterations); each holder has an envelope with the key of the epoch.     *)
(* The owner's rekey starts a new epoch, in the database thread, on the    *)
(* document instance the event loop works with.                            *)
(*                                                                         *)
(* Ciphertext is abstracted to what it encrypts and under which epoch: a   *)
(* snapshot to the version it covers, a diff to the version it was made    *)
(* for.  Clients encrypt what they say they do; the plain text a document  *)
(* starts with counts as its first snapshot.  A frame that is rejected     *)
(* changes nothing and has no action.  Sending does not suspend.  What the *)
(* database thread does to the instance between two of its calls to the    *)
(* database is one step, and so is what a handler does between two awaits. *)
(***************************************************************************)
EXTENDS Integers, Sequences, FiniteSets

CONSTANTS
    Conns,          \* connections that may write
    Owners,         \* those of the owner
    Users,          \* who has or may get an envelope: owner and collaborators
    Holders,        \* who has one at first
    HistoryLength,  \* WebsocketConsumer.history_length
    PromptSnapshots,\* environment: does a snapshot come before the diffs are trimmed?
    RekeyAlone,     \* environment: is nobody else writing during a rekey?
    FailPlaces,     \* environment: where the database may refuse a rekey
    MaxVersion,     \* bound on the diffs accepted
    MaxRekeys,      \* bound on the rekeys sent
    MaxRestarts     \* bound on the restarts

ASSUME ConnsAssumption == IsFiniteSet(Conns) /\ Owners \subseteq Conns
ASSUME UsersAssumption == IsFiniteSet(Users) /\ Holders \subseteq Users
ASSUME LengthAssumption == HistoryLength \in Nat \ {0}
ASSUME FlagAssumption == {PromptSnapshots, RekeyAlone} \subseteq BOOLEAN
ASSUME FailAssumption == FailPlaces \subseteq {"rekeying", "committing"}
ASSUME BoundAssumption == {MaxVersion, MaxRekeys, MaxRestarts} \subseteq Nat

VARIABLES
    doc,        \* session["doc"], the instance in memory
    saved,      \* session["last_saved_version"]
    row,        \* the document's row
    keys,       \* the epoch of each user's envelope
    at,         \* where each connection's handler is suspended
    rekey,      \* the rekey message a handler works on
    queue,      \* the handlers waiting for the database thread
    txn,        \* the row as an open transaction has written it
    epochs,     \* the epochs made so far
    restarts    \* how often the server was restarted

vars == <<doc, saved, row, keys, at, rekey, queue, txn, epochs, restarts>>

NoKey == 0
Diff == [v : Nat, epoch : Nat]
Doc == [version : Nat,
        epoch : Nat,          \* e2ee_salt and e2ee_iterations
        content : [v : Nat, epoch : Nat],
        snap : Nat,           \* e2ee_snapshot_version, None read as 0
        diffs : Seq(Diff)]
Rekey == [v : Nat, epoch : Nat, keys : SUBSET Users]
NoRekey == [v |-> 0, epoch |-> 0, keys |-> {}]
Places == {"idle", "saving", "wrote", "rekeying", "committing"}

LastN(s, n) == SubSeq(s, Len(s) - n + 1, Len(s))

\* diffs[-history_length:]
Trim(ds) == IF Len(ds) > HistoryLength THEN LastN(ds, HistoryLength) ELSE ds

NewDoc == [version |-> 0, epoch |-> 1, content |-> [v |-> 0, epoch |-> 1],
           snap |-> 0, diffs |-> <<>>]

Init ==
    /\ doc = NewDoc /\ row = NewDoc /\ txn = NewDoc
    /\ saved = 0
    /\ keys = [u \in Users |-> IF u \in Holders THEN 1 ELSE NoKey]
    /\ at = [c \in Conns |-> "idle"]
    /\ rekey = [c \in Conns |-> NoRekey]
    /\ queue = <<>>
    /\ epochs = 1
    /\ restarts = 0

Rekeying == \E c \in Conns : at[c] \in {"rekeying", "committing"}
\* The handler the database thread is to serve, or is serving.
Served(c) == queue # <<>> /\ Head(queue) = c

-----------------------------------------------------------------------------
(* Diffs and snapshots.                                                    *)

\* fault: the salt of a diff is not compared
AnyEpoch(e) == e \in 0..epochs

CurrentEpoch(e) == e = doc.epoch

\* handle_diff for an encrypted document: the version and the salt must be current.
AcceptDiff(c) ==
    /\ at[c] = "idle"
    /\ doc.version < MaxVersion
    /\ PromptSnapshots => doc.version - doc.snap < HistoryLength
    /\ RekeyAlone => ~Rekeying
    /\ \E v \in 0..MaxVersion, e \in 0..epochs :
        /\ v = doc.version
        /\ CurrentEpoch(e)
        /\ doc' = [doc EXCEPT !.diffs = Trim(Append(@, [v |-> v, epoch |-> e])),
                              !.version = @ + 1]
    /\ UNCHANGED <<saved, row, keys, at, rekey, queue, txn, epochs, restarts>>

\* A snapshot, like a rekey, must cover exactly the current version.
Covers(v) == v = doc.version

\* Hand the document to the database thread.
Submit(c) ==
    /\ queue' = Append(queue, c)
    /\ at' = [at EXCEPT ![c] = "saving"]

\* handle_e2ee_snapshot: stored in the instance, then saved whatever the version.
AcceptSnapshot(c) ==
    /\ at[c] = "idle"
    /\ RekeyAlone => ~Rekeying
    /\ \E v \in 0..MaxVersion, e \in 0..epochs :
        /\ CurrentEpoch(e)
        /\ Covers(v)
        /\ doc' = [doc EXCEPT !.content = [v |-> v, epoch |-> e], !.snap = v]
    /\ Submit(c)
    /\ UNCHANGED <<saved, row, keys, rekey, txn, epochs, restarts>>

\* unfixable and disconnect: saved when the version is not the one saved last.
Save(c) ==
    /\ at[c] = "idle"
    /\ doc.version # saved
    /\ Submit(c)
    /\ UNCHANGED <<doc, saved, row, keys, rekey, txn, epochs, restarts>>

\* The ORM reads the instance when the thread gets to it.
WriteRow(c) ==
    /\ at[c] = "saving" /\ Served(c)
    /\ row' = doc
    /\ queue' = Tail(queue)
    /\ at' = [at EXCEPT ![c] = "wrote"]
    /\ UNCHANGED <<doc, saved, keys, rekey, txn, epochs, restarts>>

FinishSave(c) ==
    /\ at[c] = "wrote"
    /\ saved' = doc.version
    /\ at' = [at EXCEPT ![c] = "idle"]
    /\ UNCHANGED <<doc, row, keys, rekey, queue, txn, epochs, restarts>>

-----------------------------------------------------------------------------
(* Rekeying.                                                               *)

\* handle_e2ee_rekey: the owner's message covers the current version; the rest is
\* left to the database thread.
RequestRekey(c) ==
    /\ c \in Owners
    /\ at[c] = "idle"
    /\ epochs <= MaxRekeys
    /\ RekeyAlone => \A x \in Conns : at[x] = "idle"
    /\ \E v \in 0..MaxVersion, ks \in SUBSET Users :
        /\ Covers(v)
        /\ rekey' = [rekey EXCEPT ![c] = [v |-> v, epoch |-> epochs + 1, keys |-> ks]]
    /\ epochs' = epochs + 1
    /\ queue' = Append(queue, c)
    /\ at' = [at EXCEPT ![c] = "rekeying"]
    /\ UNCHANGED <<doc, saved, row, keys, txn, restarts>>

\* fault: the envelopes are not compared with those there are
KeepsAny(ks) == ks \subseteq Users

\* Every holder must get a new envelope, and only users with access may.
KeepsHolders(ks) ==
    {u \in Users : keys[u] # NoKey} \subseteq ks /\ ks \subseteq Users

\* The handler's rekey is over.
EndRekey(c) ==
    /\ queue' = Tail(queue)
    /\ at' = [at EXCEPT ![c] = "idle"]
    /\ rekey' = [rekey EXCEPT ![c] = NoRekey]
    /\ txn' = NewDoc

RefuseRekey(c) ==
    /\ at[c] = "rekeying" /\ Served(c)
    /\ ~KeepsHolders(rekey[c].keys)
    /\ EndRekey(c)
    /\ UNCHANGED <<doc, saved, row, keys, epochs, restarts>>

\* fault: the diffs of the old epoch are kept
RekeyedKeepsDiffs(m) ==
    [doc EXCEPT !.epoch = m.epoch, !.content = [v |-> m.v, epoch |-> m.epoch],
                !.snap = m.v]

\* The instance after the assignments of _apply_rekey.
Rekeyed(m) ==
    [doc EXCEPT !.epoch = m.epoch, !.content = [v |-> m.v, epoch |-> m.epoch],
                !.snap = m.v, !.diffs = <<>>]

\* _apply_rekey in its transaction: change the instance, write it, ...
ApplyRekey(c) ==
    /\ at[c] = "rekeying" /\ Served(c)
    /\ KeepsHolders(rekey[c].keys)
    /\ doc' = Rekeyed(rekey[c])
    /\ txn' = doc'
    /\ at' = [at EXCEPT ![c] = "committing"]
    /\ UNCHANGED <<saved, row, keys, rekey, queue, epochs, restarts>>

\* ... write the envelopes, and commit.
CommitRekey(c) ==
    /\ at[c] = "committing"
    /\ row' = txn
    /\ keys' = [u \in Users |-> IF u \in rekey[c].keys THEN rekey[c].epoch ELSE keys[u]]
    /\ EndRekey(c)
    /\ UNCHANGED <<doc, saved, epochs, restarts>>

\* The database refuses: the transaction is rolled back and the message rejected.
FailRekey(c) ==
    /\ at[c] \in FailPlaces /\ Served(c)
    /\ EndRekey(c)
    /\ UNCHANGED <<doc, saved, row, keys, epochs, restarts>>

\* The process is gone, and the next session is opened from the row.
Restart ==
    /\ restarts < MaxRestarts
    /\ restarts' = restarts + 1
    /\ doc' = row
    /\ saved' = row.version
    /\ at' = [c \in Conns |-> "idle"]
    /\ queue' = <<>>
    /\ rekey' = [c \in Conns |-> NoRekey]
    /\ txn' = NewDoc
    /\ UNCHANGED <<row, keys, epochs>>

Next ==
    \/ \E c \in Conns :
        \/ AcceptDiff(c) \/ AcceptSnapshot(c) \/ Save(c)
        \/ WriteRow(c) \/ FinishSave(c)
        \/ RequestRekey(c) \/ RefuseRekey(c) \/ ApplyRekey(c)
        \/ CommitRekey(c) \/ FailRekey(c)
    \/ Restart

Spec == Init /\ [][Next]_vars

-----------------------------------------------------------------------------
(* Properties.                                                             *)

\* Every variable stays in its domain, and the stored diffs within their limit.
TypeOK ==
    /\ {doc, row, txn} \subseteq Doc
    /\ \A d \in {doc, row, txn} : Len(d.diffs) <= HistoryLength
    /\ saved \in Nat
    /\ keys \in [Users -> Nat]
    /\ at \in [Conns -> Places]
    /\ rekey \in [Conns -> Rekey]
    /\ queue \in Seq(Conns)
    /\ epochs \in Nat /\ restarts \in Nat

\* The snapshot covers the version it claims, and the diffs from there to the
\* current version are all there, in order and under the same epoch.
Readable(d) ==
    /\ d.content = [v |-> d.snap, epoch |-> d.epoch]
    /\ d.snap <= d.version /\ d.version - d.snap <= Len(d.diffs)
    /\ \A k \in 1..(d.version - d.snap) :
        LastN(d.diffs, d.version - d.snap)[k] = [v |-> d.snap + k - 1, epoch |-> d.epoch]

\* Stored and live document can be put together from snapshot and diffs at any time,
\* saves in flight, rekeys and restarts notwithstanding.
DocumentReadable == Readable(doc) /\ Readable(row)

\* Every diff a client could be sent was encrypted in the epoch of the document.
OneEpoch == \A d \in {doc, row} : \A k \in 1..Len(d.diffs) : d.diffs[k].epoch = d.epoch

\* A change of epoch comes together with fresh envelopes: every user with an envelope
\* has the key of the stored document.
EnvelopesFit == \A u \in Users : keys[u] # NoKey => keys[u] = row.epoch
=============================================================================
