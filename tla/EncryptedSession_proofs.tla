----------------------- MODULE EncryptedSession_proofs -----------------------
(***************************************************************************)
(* What holds of EncryptedSession for any number of connections and users, *)
(* any history length, and whatever the environment does, unless a theorem *)
(* says otherwise.                                                         *)
(***************************************************************************)
EXTENDS EncryptedSession, SequenceTheorems, TLAPS

\* All diffs of a document are of its epoch.
Uniform(d) == \A k \in 1..Len(d.diffs) : d.diffs[k].epoch = d.epoch

Sound == TypeOK /\ Uniform(doc) /\ Uniform(row) /\ Uniform(txn)

-----------------------------------------------------------------------------
(* Lemmas about the operators.                                             *)

\* Trimming keeps the end of the list.
LEMMA Trimmed ==
    ASSUME NEW ds \in Seq(Diff)
    PROVE  /\ Trim(ds) \in Seq(Diff)
           /\ Len(Trim(ds)) <= HistoryLength
           /\ \A k \in 1..Len(Trim(ds)) : \E j \in 1..Len(ds) : Trim(ds)[k] = ds[j]
<1>1. Len(ds) \in Nat /\ HistoryLength \in Nat \ {0}
  BY LenProperties, LengthAssumption
<1>2. CASE Len(ds) > HistoryLength
  <2> DEFINE first == Len(ds) - HistoryLength + 1
  <2>1. first \in 1..Len(ds) /\ Len(ds) \in 1..Len(ds)
    BY <1>1, <1>2
  <2>2. Trim(ds) = SubSeq(ds, first, Len(ds))
    BY <1>2 DEF Trim, LastN
  <2> HIDE DEF first
  <2>3. /\ Trim(ds) \in Seq(Diff)
        /\ Len(Trim(ds)) = Len(ds) - first + 1
        /\ \A i \in 1..(Len(ds) - first + 1) : Trim(ds)[i] = ds[first + i - 1]
    BY <2>1, <2>2, SubSeqProperties
  <2>4. \A i \in 1..(Len(ds) - first + 1) : first + i - 1 \in 1..Len(ds)
    BY <1>1, <2>1
  <2>5. Len(Trim(ds)) <= HistoryLength
    BY <1>1, <2>3 DEF first
  <2> QED
    BY <2>3, <2>4, <2>5
<1>3. CASE Len(ds) <= HistoryLength
  BY <1>1, <1>3 DEF Trim
<1> QED
  BY <1>1, <1>2, <1>3

\* A diff in the epoch of the document leaves it a document of one epoch.
LEMMA Extended ==
    ASSUME NEW d \in Doc, Uniform(d), NEW v \in Nat
    PROVE  LET ds == Trim(Append(d.diffs, [v |-> v, epoch |-> d.epoch]))
               e == [d EXCEPT !.diffs = ds, !.version = @ + 1]
           IN  e \in Doc /\ Uniform(e) /\ e.epoch = d.epoch
                 /\ Len(e.diffs) <= HistoryLength
<1> DEFINE new == [v |-> v, epoch |-> d.epoch]
           all == Append(d.diffs, new)
           e == [d EXCEPT !.diffs = Trim(all), !.version = @ + 1]
<1>1. d.diffs \in Seq(Diff) /\ new \in Diff
  BY DEF Doc, Diff
<1>2. all \in Seq(Diff) /\ \A k \in 1..Len(all) : all[k].epoch = d.epoch
  BY <1>1, AppendProperties DEF Uniform
<1> HIDE DEF all
<1>3. /\ Trim(all) \in Seq(Diff)
      /\ Len(Trim(all)) <= HistoryLength
      /\ \A k \in 1..Len(Trim(all)) : \E j \in 1..Len(all) : Trim(all)[k] = all[j]
  BY <1>2, Trimmed
<1> DEFINE kept == Trim(all)
           f == [d EXCEPT !.diffs = kept]
<1>4. e \in Doc /\ e.diffs = kept /\ e.epoch = d.epoch
  <2>1. kept \in Seq(Diff)
    BY <1>3
  <2>2. e = [f EXCEPT !.version = d.version + 1]
    BY DEF Doc
  <2> HIDE DEF kept, e
  <2>3. f \in Doc /\ f.diffs = kept /\ f.epoch = d.epoch /\ d.version + 1 \in Nat
    BY <2>1, SMTT(20) DEF Doc
  <2> HIDE DEF f
  <2> QED
    BY <2>2, <2>3 DEF Doc
<1>5. Uniform(e)
  BY <1>2, <1>3, <1>4 DEF Uniform, kept
<1> QED
  BY <1>3, <1>4, <1>5 DEF all

\* The instance after a rekey.
LEMMA RekeyedDoc ==
    ASSUME doc \in Doc, NEW m \in Rekey
    PROVE  /\ Rekeyed(m) \in Doc /\ Uniform(Rekeyed(m))
           /\ Rekeyed(m).epoch = m.epoch /\ Len(Rekeyed(m).diffs) <= HistoryLength
<1>1. <<>> \in Seq(Diff) /\ Len(<<>>) = 0
  BY EmptySeq
<1>2. Rekeyed(m) \in Doc /\ Rekeyed(m).epoch = m.epoch /\ Rekeyed(m).diffs = <<>>
  BY <1>1 DEF Rekeyed, Rekey, Doc
<1> QED
  BY <1>1, <1>2, LengthAssumption DEF Uniform

LEMMA NewDocUniform ==
    NewDoc \in Doc /\ Uniform(NewDoc) /\ Len(NewDoc.diffs) <= HistoryLength
<1>1. <<>> \in Seq(Diff) /\ Len(<<>>) = 0
  BY EmptySeq
<1> QED
  BY <1>1, LengthAssumption DEF NewDoc, Doc, Uniform

-----------------------------------------------------------------------------
(* Types and epochs.                                                       *)

LEMMA SoundInit == Init => Sound
<1> SUFFICES ASSUME Init PROVE Sound
  OBVIOUS
<1>1. /\ doc \in Doc /\ row \in Doc /\ txn \in Doc
      /\ Uniform(doc) /\ Uniform(row) /\ Uniform(txn)
  BY NewDocUniform DEF Init
<1>2. \A d \in {doc, row, txn} : Len(d.diffs) <= HistoryLength
  BY NewDocUniform DEF Init
<1>3. queue \in Seq(Conns)
  BY EmptySeq DEF Init
<1>4. keys \in [Users -> Nat] /\ at \in [Conns -> Places]
  BY DEF Init, NoKey, Places
<1>5. rekey \in [Conns -> Rekey]
  BY DEF Init, NoRekey, Rekey
<1>6. saved \in Nat /\ epochs \in Nat /\ restarts \in Nat
  BY DEF Init
<1> QED
  BY <1>1, <1>2, <1>3, <1>4, <1>5, <1>6 DEF Sound, TypeOK

\* Diffs and snapshots.
LEMMA SoundWriting ==
    ASSUME Sound, NEW c \in Conns, AcceptDiff(c) \/ AcceptSnapshot(c) \/ Save(c)
    PROVE  Sound'
<1>1. doc \in Doc /\ Uniform(doc) /\ Len(doc.diffs) <= HistoryLength
  BY DEF Sound, TypeOK
<1>2. at' \in [Conns -> Places] /\ queue' \in Seq(Conns)
  <2>1. at \in [Conns -> Places] /\ queue \in Seq(Conns) /\ "saving" \in Places
    BY DEF Sound, TypeOK, Places
  <2>2. \/ at' = at /\ queue' = queue
        \/ at' = [at EXCEPT ![c] = "saving"] /\ queue' = Append(queue, c)
    BY DEF AcceptDiff, AcceptSnapshot, Save, Submit
  <2> QED
    BY <2>1, <2>2, AppendProperties
<1>3. doc' \in Doc /\ Uniform(doc') /\ Len(doc'.diffs) <= HistoryLength
  <2>1. CASE AcceptDiff(c)
    <3>1. PICK v \in 0..MaxVersion, e \in 0..epochs :
            /\ e = doc.epoch
            /\ doc' = [doc EXCEPT !.diffs = Trim(Append(@, [v |-> v, epoch |-> e])),
                                  !.version = @ + 1]
      BY <2>1 DEF AcceptDiff, CurrentEpoch
    <3>2. v \in Nat
      BY BoundAssumption
    <3> QED
      BY <1>1, <3>1, <3>2, Extended
  <2>2. CASE AcceptSnapshot(c)
    <3>1. PICK v \in 0..MaxVersion, e \in 0..epochs :
            doc' = [doc EXCEPT !.content = [v |-> v, epoch |-> e], !.snap = v]
      BY <2>2 DEF AcceptSnapshot
    <3> DEFINE f == [doc EXCEPT !.content = [v |-> v, epoch |-> e]]
    <3>2. v \in Nat /\ e \in Nat
      BY BoundAssumption DEF Sound, TypeOK
    <3>3. doc' = [f EXCEPT !.snap = v]
      BY <1>1, <3>1 DEF Doc
    <3>4. f \in Doc /\ f.diffs = doc.diffs /\ f.epoch = doc.epoch
      BY <1>1, <3>2 DEF Doc
    <3> HIDE DEF f
    <3>5. doc' \in Doc /\ doc'.diffs = doc.diffs /\ doc'.epoch = doc.epoch
      BY <3>2, <3>3, <3>4 DEF Doc
    <3> QED
      BY <1>1, <3>5 DEF Uniform
  <2>3. CASE Save(c)
    BY <1>1, <2>3 DEF Save
  <2> QED
    BY <2>1, <2>2, <2>3
<1>4. UNCHANGED <<saved, row, keys, rekey, txn, epochs, restarts>>
  BY DEF AcceptDiff, AcceptSnapshot, Save
<1> QED
  BY <1>2, <1>3, <1>4 DEF Sound, TypeOK, Uniform

\* The database thread and what follows it.
LEMMA SoundStoring ==
    ASSUME Sound, NEW c \in Conns, WriteRow(c) \/ FinishSave(c) PROVE Sound'
<1>1. at' \in [Conns -> Places] /\ queue' \in Seq(Conns)
  <2>1. CASE WriteRow(c)
    BY <2>1, HeadTailProperties DEF Sound, TypeOK, Places, WriteRow, Served
  <2>2. CASE FinishSave(c)
    BY <2>2 DEF Sound, TypeOK, Places, FinishSave
  <2> QED
    BY <2>1, <2>2
<1>2. row' \in {row, doc} /\ saved' \in {saved, doc.version}
  BY DEF WriteRow, FinishSave
<1>3. UNCHANGED <<doc, keys, rekey, txn, epochs, restarts>>
  BY DEF WriteRow, FinishSave
<1>4. doc.version \in Nat
  BY DEF Sound, TypeOK, Doc
<1> QED
  BY <1>1, <1>2, <1>3, <1>4 DEF Sound, TypeOK, Uniform

\* A rekey that is over leaves the handler idle and the thread to the next.
LEMMA Ended ==
    ASSUME TypeOK, NEW c \in Conns, Served(c), EndRekey(c)
    PROVE  /\ at' \in [Conns -> Places] /\ queue' \in Seq(Conns)
           /\ rekey' \in [Conns -> Rekey]
           /\ txn' \in Doc /\ Uniform(txn') /\ Len(txn'.diffs) <= HistoryLength
<1>1. queue \in Seq(Conns) /\ queue # <<>>
  BY DEF TypeOK, Served
<1>2. queue' \in Seq(Conns)
  BY <1>1, HeadTailProperties DEF EndRekey
<1>3. at' \in [Conns -> Places]
  BY DEF TypeOK, Places, EndRekey
<1>4. rekey' \in [Conns -> Rekey]
  BY DEF TypeOK, EndRekey, NoRekey, Rekey
<1> QED
  BY <1>2, <1>3, <1>4, NewDocUniform DEF EndRekey, Uniform

\* Every commit is of the handler the thread is serving.
CommitsServed == \A c \in Conns : at[c] = "committing" => Served(c)

LEMMA SoundRekey ==
    ASSUME Sound, CommitsServed, NEW c \in Conns,
           \/ RequestRekey(c) \/ RefuseRekey(c) \/ ApplyRekey(c)
           \/ CommitRekey(c) \/ FailRekey(c)
    PROVE  Sound'
<1>0. TypeOK
  BY DEF Sound
<1>1. CASE RequestRekey(c)
  <2>1. PICK v \in 0..MaxVersion, ks \in SUBSET Users :
          rekey' = [rekey EXCEPT ![c] = [v |-> v, epoch |-> epochs + 1, keys |-> ks]]
    BY <1>1 DEF RequestRekey
  <2>2. [v |-> v, epoch |-> epochs + 1, keys |-> ks] \in Rekey
    BY <1>0, BoundAssumption DEF TypeOK, Rekey
  <2>3. rekey' \in [Conns -> Rekey]
    BY <1>0, <2>1, <2>2 DEF TypeOK
  <2>4. queue' \in Seq(Conns)
    BY <1>0, <1>1, AppendProperties DEF TypeOK, RequestRekey
  <2>5. at' \in [Conns -> Places] /\ epochs' \in Nat
    BY <1>0, <1>1 DEF TypeOK, Places, RequestRekey
  <2>6. UNCHANGED <<doc, saved, row, keys, txn, restarts>>
    BY <1>1 DEF RequestRekey
  <2> QED
    BY <2>3, <2>4, <2>5, <2>6 DEF Sound, TypeOK, Uniform
<1>2. CASE RefuseRekey(c) \/ FailRekey(c)
  <2>1. /\ Served(c) /\ EndRekey(c)
        /\ UNCHANGED <<doc, saved, row, keys, epochs, restarts>>
    BY <1>2 DEF RefuseRekey, FailRekey
  <2> QED
    BY <1>0, <2>1, Ended DEF Sound, TypeOK, Uniform
<1>3. CASE ApplyRekey(c)
  <2>1. rekey[c] \in Rekey /\ doc \in Doc
    BY <1>0 DEF TypeOK
  <2>2. doc' = Rekeyed(rekey[c]) /\ txn' = doc'
    BY <1>3 DEF ApplyRekey
  <2>3. doc' \in Doc /\ Uniform(Rekeyed(rekey[c])) /\ Len(doc'.diffs) <= HistoryLength
    BY <2>1, <2>2, RekeyedDoc
  <2>4. at' \in [Conns -> Places]
    BY <1>0, <1>3 DEF TypeOK, Places, ApplyRekey
  <2>5. UNCHANGED <<saved, row, keys, rekey, queue, epochs, restarts>>
    BY <1>3 DEF ApplyRekey
  <2> QED
    BY <2>2, <2>3, <2>4, <2>5 DEF Sound, TypeOK, Uniform
<1>4. CASE CommitRekey(c)
  <2>1. /\ Served(c) /\ EndRekey(c)
        /\ row' = txn
        /\ UNCHANGED <<doc, saved, epochs, restarts>>
    BY <1>4 DEF CommitRekey, CommitsServed
  <2>2. keys' \in [Users -> Nat]
    BY <1>0, <1>4 DEF TypeOK, CommitRekey, Rekey
  <2> QED
    BY <1>0, <2>1, <2>2, Ended DEF Sound, TypeOK, Uniform
<1> QED
  BY <1>1, <1>2, <1>3, <1>4

LEMMA SoundRestart == ASSUME Sound, Restart PROVE Sound'
<1>1. queue' \in Seq(Conns) /\ txn' \in Doc /\ Uniform(txn')
      /\ Len(txn'.diffs) <= HistoryLength
  BY EmptySeq, NewDocUniform DEF Restart, Uniform
<1>2. at' \in [Conns -> Places] /\ rekey' \in [Conns -> Rekey]
  BY DEF Restart, Places, NoRekey, Rekey
<1>3. /\ doc' = row /\ saved' = row.version /\ restarts' = restarts + 1
      /\ UNCHANGED <<row, keys, epochs>>
  BY DEF Restart
<1>4. /\ row \in Doc /\ Uniform(row) /\ Len(row.diffs) <= HistoryLength
      /\ keys \in [Users -> Nat] /\ epochs \in Nat /\ restarts \in Nat
  BY DEF Sound, TypeOK
<1>5. saved' \in Nat /\ restarts' \in Nat
  BY <1>3, <1>4 DEF Doc
<1> QED
  BY <1>1, <1>2, <1>3, <1>4, <1>5 DEF Sound, TypeOK, Uniform

\* Whoever commits is served: others only join the queue behind, and the head leaves
\* when its own handler is done.
LEMMA CommitsServedStep ==
    ASSUME Sound, CommitsServed, [Next]_vars PROVE CommitsServed'
<1>0. queue \in Seq(Conns) /\ at \in [Conns -> Places]
  BY DEF Sound, TypeOK
<1>1. \A c, x \in Conns : Served(x) => Served(x)' \/ queue' # Append(queue, c)
  <2> SUFFICES ASSUME NEW c \in Conns, NEW x \in Conns, Served(x),
                      queue' = Append(queue, c)
               PROVE  Served(x)'
    OBVIOUS
  <2>1. queue # <<>> /\ Head(queue) = x
    BY DEF Served
  <2>2. Append(queue, c) # <<>> /\ Head(Append(queue, c)) = Head(queue)
    BY <1>0, <2>1
  <2> QED
    BY <2>1, <2>2 DEF Served
\* a handler joins the queue, and commits nothing
<1>2. ASSUME NEW c \in Conns, NEW place \in Places \ {"committing"},
             queue' = Append(queue, c), at' = [at EXCEPT ![c] = place]
      PROVE  CommitsServed'
  BY <1>0, <1>1, <1>2 DEF CommitsServed
\* the head leaves the queue, and nobody else was committing
<1>3. ASSUME NEW c \in Conns, Served(c), NEW place \in Places \ {"committing"},
             at' = [at EXCEPT ![c] = place]
      PROVE  CommitsServed'
  BY <1>0, <1>3 DEF CommitsServed, Served
\* the queue stays, and who did not commit does so only if served
<1>4. ASSUME NEW c \in Conns, NEW place \in Places,
             place = "committing" => Served(c),
             queue' = queue, at' = [at EXCEPT ![c] = place]
      PROVE  CommitsServed'
  BY <1>0, <1>4 DEF CommitsServed, Served
<1>5. ASSUME queue' = queue, at' = at PROVE CommitsServed'
  BY <1>5 DEF CommitsServed, Served
<1>6. ASSUME NEW c \in Conns,
             \/ AcceptDiff(c) \/ AcceptSnapshot(c) \/ Save(c)
             \/ WriteRow(c) \/ FinishSave(c) \/ RequestRekey(c)
      PROVE  CommitsServed'
  <2>1. CASE AcceptDiff(c)
    BY <1>5, <2>1 DEF AcceptDiff
  <2>2. CASE AcceptSnapshot(c) \/ Save(c)
    BY <1>2, <2>2 DEF AcceptSnapshot, Save, Submit, Places
  <2>3. CASE WriteRow(c)
    BY <1>3, <2>3 DEF WriteRow, Places
  <2>4. CASE FinishSave(c)
    BY <1>4, <2>4 DEF FinishSave, Places
  <2>5. CASE RequestRekey(c)
    BY <1>2, <2>5 DEF RequestRekey, Places
  <2> QED
    BY <1>6, <2>1, <2>2, <2>3, <2>4, <2>5
<1>7. ASSUME NEW c \in Conns,
             RefuseRekey(c) \/ ApplyRekey(c) \/ CommitRekey(c) \/ FailRekey(c)
      PROVE  CommitsServed'
  <2>1. CASE RefuseRekey(c) \/ FailRekey(c)
    BY <1>3, <2>1 DEF RefuseRekey, FailRekey, EndRekey, Places
  <2>2. CASE ApplyRekey(c)
    BY <1>4, <2>2 DEF ApplyRekey, Places
  <2>3. CASE CommitRekey(c)
    <3>1. Served(c)
      BY <2>3 DEF CommitRekey, CommitsServed
    <3> QED
      BY <1>3, <2>3, <3>1 DEF CommitRekey, EndRekey, Places
  <2> QED
    BY <1>7, <2>1, <2>2, <2>3
<1>8. CASE Restart
  BY <1>8 DEF Restart, CommitsServed
<1>9. CASE UNCHANGED vars
  BY <1>5, <1>9 DEF vars
<1> QED
  BY <1>6, <1>7, <1>8, <1>9 DEF Next

LEMMA SoundStep == ASSUME Sound, CommitsServed, [Next]_vars PROVE Sound'
<1>1. CASE UNCHANGED vars
  BY <1>1 DEF vars, Sound, TypeOK, Uniform
<1>2. CASE Restart
  BY <1>2, SoundRestart
<1>3. CASE \E c \in Conns : \/ AcceptDiff(c) \/ AcceptSnapshot(c) \/ Save(c)
                            \/ WriteRow(c) \/ FinishSave(c)
  BY <1>3, SoundWriting, SoundStoring
<1>4. CASE \E c \in Conns : \/ RequestRekey(c) \/ RefuseRekey(c) \/ ApplyRekey(c)
                            \/ CommitRekey(c) \/ FailRekey(c)
  BY <1>4, SoundRekey
<1> QED
  BY <1>1, <1>2, <1>3, <1>4 DEF Next

LEMMA AlwaysSound == Spec => [](Sound /\ CommitsServed)
<1>1. Init => Sound /\ CommitsServed
  BY SoundInit DEF Init, CommitsServed
<1>2. Sound /\ CommitsServed /\ [Next]_vars => (Sound /\ CommitsServed)'
  BY SoundStep, CommitsServedStep
<1> QED
  BY <1>1, <1>2, PTL DEF Spec

\* Types hold, and the stored diffs keep to the history limit.
THEOREM TypeCorrect == Spec => []TypeOK
<1>1. Sound => TypeOK
  BY DEF Sound
<1> QED
  BY <1>1, AlwaysSound, PTL

\* No diff of an earlier epoch is ever kept, in memory or in the row, wherever the
\* database fails and whoever writes between the check of a rekey and its assignments.
THEOREM OneEpochCorrect == Spec => []OneEpoch
<1>1. Sound => OneEpoch
  BY DEF Sound, Uniform, OneEpoch
<1> QED
  BY <1>1, AlwaysSound, PTL

-----------------------------------------------------------------------------
(* Envelopes.                                                              *)

\* While a rekey is being committed the instance has its epoch already, and the
\* envelopes it brings are enough; otherwise instance and row have the same epoch.
Keyed ==
    /\ EnvelopesFit
    /\ \A c \in Conns : at[c] = "committing" =>
        /\ KeepsHolders(rekey[c].keys)
        /\ doc.epoch = rekey[c].epoch /\ txn.epoch = rekey[c].epoch
    /\ (\A c \in Conns : at[c] # "committing") => doc.epoch = row.epoch

\* A handler the thread serves is the only one that may be committing.
LEMMA OnlyServed ==
    ASSUME CommitsServed, NEW c \in Conns, Served(c)
    PROVE  \A x \in Conns : at[x] = "committing" => x = c
BY DEF CommitsServed, Served

\* What a step must keep for nothing to change about epochs and envelopes.
LEMMA KeyedKept ==
    ASSUME Keyed, UNCHANGED <<row, keys, txn>>, doc'.epoch = doc.epoch,
           \A c \in Conns : (at[c] = "committing") <=> (at'[c] = "committing"),
           \A c \in Conns : at[c] = "committing" => rekey'[c] = rekey[c]
    PROVE  Keyed'
BY DEF Keyed, EnvelopesFit, KeepsHolders

LEMMA KeyedWriting ==
    ASSUME Sound, CommitsServed, Keyed, NEW c \in Conns,
           \/ AcceptDiff(c) \/ AcceptSnapshot(c) \/ Save(c)
           \/ FinishSave(c) \/ RequestRekey(c)
    PROVE  Keyed'
<1>0. /\ doc \in Doc /\ at \in [Conns -> Places] /\ rekey \in [Conns -> Rekey]
  BY DEF Sound, TypeOK
<1>1. UNCHANGED <<row, keys, txn>>
  BY DEF AcceptDiff, AcceptSnapshot, Save, FinishSave, RequestRekey
<1>2. doc'.epoch = doc.epoch
  <2>1. CASE AcceptDiff(c)
    <3>1. PICK v \in 0..MaxVersion, e \in 0..epochs :
            doc' = [doc EXCEPT !.diffs = Trim(Append(@, [v |-> v, epoch |-> e])),
                               !.version = @ + 1]
      BY <2>1 DEF AcceptDiff
    <3> DEFINE ds == Trim(Append(doc.diffs, [v |-> v, epoch |-> e]))
               f == [doc EXCEPT !.diffs = ds]
    <3>2. doc' = [f EXCEPT !.version = doc.version + 1]
      BY <1>0, <3>1 DEF Doc
    <3> HIDE DEF ds
    <3>3. f.epoch = doc.epoch /\ DOMAIN f = DOMAIN doc /\ "version" \in DOMAIN f
      BY <1>0 DEF Doc
    <3> HIDE DEF f
    <3> QED
      BY <1>0, <3>2, <3>3 DEF Doc
  <2>2. CASE AcceptSnapshot(c)
    <3>1. PICK v \in 0..MaxVersion, e \in 0..epochs :
            doc' = [doc EXCEPT !.content = [v |-> v, epoch |-> e], !.snap = v]
      BY <2>2 DEF AcceptSnapshot
    <3> DEFINE f == [doc EXCEPT !.content = [v |-> v, epoch |-> e]]
    <3>2. doc' = [f EXCEPT !.snap = v]
      BY <1>0, <3>1 DEF Doc
    <3>3. f.epoch = doc.epoch /\ DOMAIN f = DOMAIN doc /\ "epoch" \in DOMAIN f
      BY <1>0 DEF Doc
    <3> HIDE DEF f
    <3> QED
      BY <3>2, <3>3
  <2>3. CASE Save(c) \/ FinishSave(c) \/ RequestRekey(c)
    BY <2>3 DEF Save, FinishSave, RequestRekey
  <2> QED
    BY <2>1, <2>2, <2>3
\* none of these begins or ends a commit
<1>3. PICK place \in Places \ {"committing"} :
        at' = at \/ (at[c] # "committing" /\ at' = [at EXCEPT ![c] = place])
  <2>1. {"idle", "saving", "rekeying"} \subseteq Places \ {"committing"}
    BY DEF Places
  <2>2. CASE AcceptDiff(c)
    BY <2>1, <2>2 DEF AcceptDiff
  <2>3. CASE AcceptSnapshot(c) \/ Save(c)
    BY <2>1, <2>3 DEF AcceptSnapshot, Save, Submit
  <2>4. CASE FinishSave(c)
    BY <2>1, <2>4 DEF FinishSave
  <2>5. CASE RequestRekey(c)
    BY <2>1, <2>5 DEF RequestRekey
  <2> QED
    BY <2>2, <2>3, <2>4, <2>5
<1>4. \A x \in Conns : (at[x] = "committing") <=> (at'[x] = "committing")
  BY <1>0, <1>3
<1>5. \A x \in Conns : at[x] = "committing" => rekey'[x] = rekey[x]
  <2>1. CASE RequestRekey(c)
    <3>1. at[c] = "idle" /\ \E m : rekey' = [rekey EXCEPT ![c] = m]
      BY <2>1 DEF RequestRekey
    <3> QED
      BY <1>0, <3>1
  <2>2. CASE rekey' = rekey
    BY <2>2
  <2> QED
    BY <2>1, <2>2 DEF AcceptDiff, AcceptSnapshot, Save, FinishSave
<1> QED
  BY <1>1, <1>2, <1>4, <1>5, KeyedKept

LEMMA KeyedWriteRow ==
    ASSUME Sound, CommitsServed, Keyed, NEW c \in Conns, WriteRow(c)
    PROVE  Keyed'
<1>1. /\ at \in [Conns -> Places] /\ at[c] = "saving" /\ Served(c)
      /\ at' = [at EXCEPT ![c] = "wrote"] /\ row' = doc
      /\ UNCHANGED <<doc, keys, rekey, txn>>
  BY DEF Sound, TypeOK, WriteRow
<1>2. \A x \in Conns : at[x] # "committing" /\ at'[x] # "committing"
  BY <1>1, OnlyServed
<1>3. row'.epoch = row.epoch
  BY <1>1, <1>2 DEF Keyed
<1> QED
  BY <1>1, <1>2, <1>3 DEF Keyed, EnvelopesFit

\* Rolled back before the instance is changed, a rekey leaves no trace.
LEMMA KeyedEnd ==
    ASSUME Sound, CommitsServed, Keyed, NEW c \in Conns,
           at[c] = "rekeying", RefuseRekey(c) \/ FailRekey(c)
    PROVE  Keyed'
<1>1. /\ at \in [Conns -> Places] /\ Served(c)
      /\ at' = [at EXCEPT ![c] = "idle"]
      /\ UNCHANGED <<doc, row, keys>>
  BY DEF Sound, TypeOK, RefuseRekey, FailRekey, EndRekey
<1>2. \A x \in Conns : at[x] # "committing" /\ at'[x] # "committing"
  BY <1>1, OnlyServed
<1> QED
  BY <1>1, <1>2 DEF Keyed, EnvelopesFit

LEMMA KeyedApply ==
    ASSUME Sound, CommitsServed, Keyed, NEW c \in Conns, ApplyRekey(c)
    PROVE  Keyed'
<1>1. /\ at \in [Conns -> Places] /\ at[c] = "rekeying" /\ Served(c)
      /\ KeepsHolders(rekey[c].keys)
      /\ doc' = Rekeyed(rekey[c]) /\ txn' = doc'
      /\ at' = [at EXCEPT ![c] = "committing"]
      /\ UNCHANGED <<row, keys, rekey>>
  BY DEF Sound, TypeOK, ApplyRekey
<1>2. doc'.epoch = rekey[c].epoch
  <2>1. doc \in Doc /\ rekey[c] \in Rekey
    BY DEF Sound, TypeOK
  <2> QED
    BY <1>1, <2>1, RekeyedDoc
<1>3. \A x \in Conns : at'[x] = "committing" => x = c
  BY <1>1, OnlyServed
<1>4. at'[c] = "committing"
  BY <1>1
<1>5. EnvelopesFit'
  BY <1>1 DEF Keyed, EnvelopesFit
<1>6. KeepsHolders(rekey[c].keys)'
  BY <1>1 DEF KeepsHolders
<1> QED
  BY <1>1, <1>2, <1>3, <1>4, <1>5, <1>6 DEF Keyed

\* The commit: every holder is among those with a new envelope.
LEMMA KeyedCommit ==
    ASSUME Sound, CommitsServed, Keyed, NEW c \in Conns, CommitRekey(c)
    PROVE  Keyed'
<1>1. /\ at \in [Conns -> Places] /\ at[c] = "committing"
      /\ row' = txn
      /\ keys' = [u \in Users |-> IF u \in rekey[c].keys THEN rekey[c].epoch ELSE keys[u]]
      /\ at' = [at EXCEPT ![c] = "idle"]
      /\ UNCHANGED doc
  BY DEF Sound, TypeOK, CommitRekey, EndRekey
<1>2. /\ KeepsHolders(rekey[c].keys)
      /\ doc.epoch = rekey[c].epoch /\ txn.epoch = rekey[c].epoch
  BY <1>1 DEF Keyed
<1>3. \A x \in Conns : at'[x] # "committing"
  BY <1>1, OnlyServed DEF CommitsServed
<1>4. EnvelopesFit'
  BY <1>1, <1>2 DEF EnvelopesFit, KeepsHolders
<1> QED
  BY <1>1, <1>2, <1>3, <1>4 DEF Keyed

LEMMA KeyedRestart == ASSUME Keyed, Restart PROVE Keyed'
<1>1. /\ doc' = row /\ at' = [c \in Conns |-> "idle"]
      /\ UNCHANGED <<row, keys>>
  BY DEF Restart
<1> QED
  BY <1>1 DEF Keyed, EnvelopesFit

LEMMA KeyedStep ==
    ASSUME FailPlaces \subseteq {"rekeying"}, Sound, CommitsServed, Keyed, [Next]_vars
    PROVE  Keyed'
<1>1. CASE UNCHANGED vars
  BY <1>1, KeyedKept DEF vars
<1>2. CASE Restart
  BY <1>2, KeyedRestart
<1>3. CASE \E c \in Conns : \/ AcceptDiff(c) \/ AcceptSnapshot(c) \/ Save(c)
                            \/ FinishSave(c) \/ RequestRekey(c)
  BY <1>3, KeyedWriting
<1>4. CASE \E c \in Conns : RefuseRekey(c) \/ FailRekey(c)
  <2>1. PICK c \in Conns : RefuseRekey(c) \/ FailRekey(c)
    BY <1>4
  <2>2. at[c] = "rekeying"
    BY <2>1 DEF RefuseRekey, FailRekey
  <2> QED
    BY <2>1, <2>2, KeyedEnd
<1>5. CASE \E c \in Conns : WriteRow(c) \/ ApplyRekey(c) \/ CommitRekey(c)
  BY <1>5, KeyedWriteRow, KeyedApply, KeyedCommit
<1> QED
  BY <1>1, <1>2, <1>3, <1>4, <1>5 DEF Next

\* If the database refuses a rekey, when it does, before the instance is changed, every
\* user with an envelope can open the stored document, however saves, diffs, rekeys of
\* several connections and restarts interleave.
THEOREM EnvelopesFitCorrect ==
    ASSUME FailPlaces \subseteq {"rekeying"} PROVE Spec => []EnvelopesFit
<1>1. Init => Keyed
  BY DEF Init, Keyed, EnvelopesFit, NewDoc, NoKey
<1>2. Sound /\ CommitsServed /\ Keyed /\ [Next]_vars => Keyed'
  BY KeyedStep
<1>3. Keyed => EnvelopesFit
  BY DEF Keyed
<1> QED
  BY <1>1, <1>2, <1>3, AlwaysSound, PTL DEF Spec
-----------------------------------------------------------------------------
(* Reading the document.                                                   *)

\* The end of ds is the diffs for the n versions from v on, in one epoch.
GoesOn(ds, n, v, e) ==
    n \in 0..Len(ds) /\ \A k \in 1..n : ds[Len(ds) - n + k] = [v |-> v + k - 1, epoch |-> e]

\* What a rekey under way is about to make of the document can be read, too: nobody has
\* raised the version since the owner looked at it.
Legible ==
    /\ Readable(doc) /\ Readable(row)
    /\ \A c \in Conns : at[c] = "committing" => Readable(txn)
    /\ \A c \in Conns : at[c] = "rekeying" => rekey[c].v = doc.version

\* The last n of a list, by their places in it.
LEMMA LastOnes ==
    ASSUME NEW ds \in Seq(Diff), NEW n \in 0..Len(ds)
    PROVE  \A k \in 1..n : LastN(ds, n)[k] = ds[Len(ds) - n + k]
<1> SUFFICES ASSUME NEW k \in 1..n PROVE LastN(ds, n)[k] = ds[Len(ds) - n + k]
  OBVIOUS
<1>1. Len(ds) \in Nat
  BY LenProperties
<1> DEFINE first == Len(ds) - n + 1
<1>2. first \in 1..Len(ds) /\ Len(ds) \in 1..Len(ds) /\ k \in 1..(Len(ds) - first + 1)
  BY <1>1
<1>3. first + k - 1 = Len(ds) - n + k
  BY <1>1
<1> HIDE DEF first
<1>4. SubSeq(ds, first, Len(ds))[k] = ds[first + k - 1]
  BY <1>2, SubSeqProperties
<1> QED
  BY <1>3, <1>4 DEF LastN, first

\* Readable, by the places in the list.
LEMMA ReadableByPlaces ==
    ASSUME NEW d \in Doc
    PROVE  Readable(d) <=> /\ d.content = [v |-> d.snap, epoch |-> d.epoch]
                           /\ GoesOn(d.diffs, d.version - d.snap, d.snap, d.epoch)
<1> DEFINE n == d.version - d.snap
<1>1. d.version \in Nat /\ d.snap \in Nat /\ d.diffs \in Seq(Diff) /\ Len(d.diffs) \in Nat
  BY LenProperties DEF Doc
<1>2. n \in 0..Len(d.diffs) <=> d.snap <= d.version /\ n <= Len(d.diffs)
  BY <1>1
<1> HIDE DEF n
<1>3. CASE n \in 0..Len(d.diffs)
  <2>1. \A k \in 1..n : LastN(d.diffs, n)[k] = d.diffs[Len(d.diffs) - n + k]
    BY <1>1, <1>3, LastOnes
  <2> QED
    BY <1>2, <1>3, <2>1 DEF Readable, GoesOn, n
<1>4. CASE n \notin 0..Len(d.diffs)
  BY <1>2, <1>4 DEF Readable, GoesOn, n
<1> QED
  BY <1>3, <1>4

\* Trimming keeps the places counted from the end.
LEMMA TrimmedPlaces ==
    ASSUME NEW ds \in Seq(Diff)
    PROVE  /\ Len(Trim(ds)) = IF Len(ds) > HistoryLength THEN HistoryLength ELSE Len(ds)
           /\ \A j \in 0..(Len(Trim(ds)) - 1) :
                 Trim(ds)[Len(Trim(ds)) - j] = ds[Len(ds) - j]
<1>1. Len(ds) \in Nat /\ HistoryLength \in Nat \ {0}
  BY LenProperties, LengthAssumption
<1>2. CASE Len(ds) > HistoryLength
  <2> DEFINE first == Len(ds) - HistoryLength + 1
  <2>1. first \in 1..Len(ds) /\ Len(ds) \in 1..Len(ds)
    BY <1>1, <1>2
  <2>2. Trim(ds) = SubSeq(ds, first, Len(ds))
    BY <1>2 DEF Trim, LastN
  <2>3. Len(ds) - first + 1 = HistoryLength
    BY <1>1
  <2> HIDE DEF first
  <2>4. /\ Len(Trim(ds)) = Len(ds) - first + 1
        /\ \A i \in 1..(Len(ds) - first + 1) : Trim(ds)[i] = ds[first + i - 1]
    BY <2>1, <2>2, SubSeqProperties
  <2>5. ASSUME NEW j \in 0..(HistoryLength - 1)
        PROVE  Trim(ds)[HistoryLength - j] = ds[Len(ds) - j]
    <3>1. HistoryLength - j \in 1..HistoryLength /\ first + (HistoryLength - j) - 1 = Len(ds) - j
      BY <1>1, <2>5 DEF first
    <3> QED
      BY <2>3, <2>4, <3>1
  <2> QED
    BY <1>2, <2>3, <2>4, <2>5
<1>3. CASE ~(Len(ds) > HistoryLength)
  BY <1>3 DEF Trim
<1> QED
  BY <1>2, <1>3

\* The place of the k-th of the last n + 1 ones in a list one longer than before.
LEMMA OnePlaceFurther ==
    ASSUME NEW len \in Nat, NEW n \in 0..len, NEW k \in 1..(n + 1)
    PROVE  /\ k = n + 1 => (len + 1) - (n + 1 - k) = len + 1
           /\ k # n + 1 => /\ k \in 1..n
                           /\ (len + 1) - (n + 1 - k) = len - n + k
                           /\ len - n + k \in 1..len
OBVIOUS

\* One more diff for the version of now leaves a document readable if the snapshot is
\* near enough for the list to reach it still.
LEMMA ReadableExtended ==
    ASSUME NEW d \in Doc, Readable(d), d.version - d.snap < HistoryLength
    PROVE  Readable([d EXCEPT
                 !.diffs = Trim(Append(@, [v |-> d.version, epoch |-> d.epoch])),
                 !.version = @ + 1])
<1> DEFINE new == [v |-> d.version, epoch |-> d.epoch]
           all == Append(d.diffs, new)
           kept == Trim(all)
           n == d.version - d.snap
           e == [d EXCEPT !.diffs = kept, !.version = @ + 1]
<1>1. /\ d.version \in Nat /\ d.snap \in Nat /\ d.epoch \in Nat
      /\ d.diffs \in Seq(Diff) /\ Len(d.diffs) \in Nat /\ HistoryLength \in Nat \ {0}
      /\ new \in Diff
  BY LenProperties, LengthAssumption DEF Doc, Diff
<1>2. d.content = [v |-> d.snap, epoch |-> d.epoch] /\ GoesOn(d.diffs, n, d.snap, d.epoch)
  BY ReadableByPlaces
<1>3. /\ all \in Seq(Diff) /\ Len(all) = Len(d.diffs) + 1
      /\ \A i \in 1..Len(d.diffs) : all[i] = d.diffs[i]
      /\ all[Len(d.diffs) + 1] = new
  BY <1>1, AppendProperties
<1> HIDE DEF all
<1>4. /\ kept \in Seq(Diff) /\ Len(kept) = IF Len(all) > HistoryLength THEN HistoryLength ELSE Len(all)
      /\ \A j \in 0..(Len(kept) - 1) : kept[Len(kept) - j] = all[Len(all) - j]
  BY <1>3, Trimmed, TrimmedPlaces
<1> HIDE DEF kept
<1>5. /\ n \in 0..Len(d.diffs) /\ n < HistoryLength /\ d.version = d.snap + n
      /\ \A i \in 1..n : d.diffs[Len(d.diffs) - n + i] = [v |-> d.snap + i - 1, epoch |-> d.epoch]
  BY <1>1, <1>2 DEF GoesOn
<1> HIDE DEF n
<1>6. /\ e \in Doc /\ e.diffs = kept /\ e.version = d.version + 1
      /\ e.snap = d.snap /\ e.epoch = d.epoch /\ e.content = d.content
  <2> DEFINE f == [d EXCEPT !.diffs = kept]
  <2>1. e = [f EXCEPT !.version = d.version + 1]
    BY DEF Doc
  <2>2. /\ f \in Doc /\ f.diffs = kept /\ f.epoch = d.epoch /\ f.snap = d.snap
        /\ f.content = d.content /\ f.version = d.version
    BY <1>4 DEF Doc
  <2>3. d.version + 1 \in Nat
    BY <1>1
  <2> HIDE DEF f, e
  <2> QED
    BY <2>1, <2>2, <2>3 DEF Doc
<1>7. GoesOn(kept, n + 1, d.snap, d.epoch)
  <2>1. n + 1 \in 0..Len(kept) /\ Len(kept) \in Nat
    BY <1>1, <1>3, <1>4, <1>5
  <2>2. ASSUME NEW k \in 1..(n + 1)
        PROVE  kept[Len(kept) - (n + 1) + k] = [v |-> d.snap + k - 1, epoch |-> d.epoch]
    <3> DEFINE j == n + 1 - k
    <3>1. j \in 0..(Len(kept) - 1) /\ Len(kept) - (n + 1) + k = Len(kept) - j
      BY <1>5, <2>1, <2>2
    <3>2. kept[Len(kept) - j] = all[Len(all) - j]
      BY <1>4, <3>1
    <3>3. CASE k = n + 1
      <4>1. Len(all) - j = Len(d.diffs) + 1
        <5>1. (Len(d.diffs) + 1) - (n + 1 - k) = Len(d.diffs) + 1
          <6>1. Len(d.diffs) \in Nat /\ n \in 0..Len(d.diffs) /\ k \in 1..(n + 1)
            BY <1>1, <1>5, <2>2
          <6> QED
            BY <3>3, <6>1, OnePlaceFurther, Zenon
        <5>2. Len(all) = Len(d.diffs) + 1
          BY <1>3, Zenon
        <5> QED
          BY <5>1, <5>2, Zenon
      <4>2. d.snap + k - 1 = d.version
        BY <1>1, <1>5, <3>3
      <4> QED
        BY <1>3, <3>1, <3>2, <4>1, <4>2
    <3>4. CASE k # n + 1
      <4>1. /\ k \in 1..n /\ Len(all) - j = Len(d.diffs) - n + k
            /\ Len(d.diffs) - n + k \in 1..Len(d.diffs)
        BY <1>1, <1>3, <1>5, <2>2, <3>4, OnePlaceFurther
      <4>2. d.diffs[Len(d.diffs) - n + k] = [v |-> d.snap + k - 1, epoch |-> d.epoch]
        BY <1>5, <4>1, Zenon
      <4>3. all[Len(all) - j] = d.diffs[Len(d.diffs) - n + k]
        BY <1>3, <4>1
      <4> QED
        BY <3>1, <3>2, <4>2, <4>3
    <3> QED
      BY <3>3, <3>4
  <2> QED
    BY <2>1, <2>2 DEF GoesOn
<1>8. e.version - e.snap = n + 1
  BY <1>1, <1>5, <1>6
<1>9. Readable(e)
  BY <1>2, <1>6, <1>7, <1>8, ReadableByPlaces
<1> QED
  BY <1>9 DEF kept, all

\* A snapshot of the version of now is enough by itself.
LEMMA ReadableAtOnce ==
    ASSUME NEW d \in Doc, d.content = [v |-> d.version, epoch |-> d.epoch], d.snap = d.version
    PROVE  Readable(d)
<1>1. d.version \in Nat /\ Len(d.diffs) \in Nat
  BY LenProperties DEF Doc
<1>2. GoesOn(d.diffs, d.version - d.snap, d.snap, d.epoch)
  BY <1>1 DEF GoesOn
<1> QED
  BY <1>2, ReadableByPlaces

LEMMA LegibleInit == Init => Legible
<1> SUFFICES ASSUME Init PROVE Legible
  OBVIOUS
<1>1. NewDoc \in Doc /\ NewDoc.content = [v |-> NewDoc.version, epoch |-> NewDoc.epoch]
      /\ NewDoc.snap = NewDoc.version
  BY NewDocUniform DEF NewDoc
<1>2. Readable(NewDoc)
  BY <1>1, ReadableAtOnce
<1> QED
  BY <1>2 DEF Init, Legible

\* A diff, when nobody rekeys and the snapshot is near enough.
LEMMA LegibleDiff ==
    ASSUME PromptSnapshots, RekeyAlone, Sound, Legible, NEW c \in Conns, AcceptDiff(c)
    PROVE  Legible'
<1>1. doc \in Doc
  BY DEF Sound, TypeOK
<1>2. doc' = [doc EXCEPT
                 !.diffs = Trim(Append(@, [v |-> doc.version, epoch |-> doc.epoch])),
                 !.version = @ + 1]
  BY DEF AcceptDiff, CurrentEpoch
<1>3. doc.version - doc.snap < HistoryLength /\ ~Rekeying
  BY DEF AcceptDiff
<1>4. Readable(doc')
  BY <1>1, <1>2, <1>3, ReadableExtended DEF Legible
<1>5. UNCHANGED <<row, txn, at, rekey>>
  BY DEF AcceptDiff
<1> QED
  BY <1>3, <1>4, <1>5 DEF Legible, Rekeying

LEMMA LegibleSnapshot ==
    ASSUME Sound, Legible, NEW c \in Conns, AcceptSnapshot(c)
    PROVE  Legible'
<1>1. doc \in Doc /\ at \in [Conns -> Places]
  BY DEF Sound, TypeOK
<1>2. doc' = [doc EXCEPT !.content = [v |-> doc.version, epoch |-> doc.epoch],
                         !.snap = doc.version]
  BY DEF AcceptSnapshot, CurrentEpoch, Covers
<1>3. /\ doc' \in Doc /\ doc'.version = doc.version /\ doc'.snap = doc.version
      /\ doc'.epoch = doc.epoch /\ doc'.content = [v |-> doc.version, epoch |-> doc.epoch]
  <2> DEFINE f == [doc EXCEPT !.content = [v |-> doc.version, epoch |-> doc.epoch]]
  <2>1. doc' = [f EXCEPT !.snap = doc.version]
    BY <1>1, <1>2 DEF Doc
  <2>2. /\ f \in Doc /\ f.version = doc.version /\ f.epoch = doc.epoch
        /\ f.content = [v |-> doc.version, epoch |-> doc.epoch]
    BY <1>1 DEF Doc
  <2>3. doc.version \in Nat
    BY <1>1 DEF Doc
  <2> HIDE DEF f
  <2> QED
    BY <2>1, <2>2, <2>3 DEF Doc
<1>4. Readable(doc')
  BY <1>3, ReadableAtOnce
<1>5. at' = [at EXCEPT ![c] = "saving"] /\ UNCHANGED <<row, txn, rekey>>
  BY DEF AcceptSnapshot, Submit
<1> QED
  BY <1>1, <1>3, <1>4, <1>5 DEF Legible

\* The rest of what handlers and the database thread do.
LEMMA LegibleRest ==
    ASSUME Sound, Legible, NEW c \in Conns,
           Save(c) \/ WriteRow(c) \/ FinishSave(c) \/ RequestRekey(c)
    PROVE  Legible'
<1>1. at \in [Conns -> Places] /\ rekey \in [Conns -> Rekey]
  BY DEF Sound, TypeOK
<1>2. doc' = doc /\ txn' = txn /\ row' \in {row, doc}
  BY DEF Save, WriteRow, FinishSave, RequestRekey
<1>3. CASE RequestRekey(c)
  <2>1. PICK ks \in SUBSET Users : rekey' =
          [rekey EXCEPT ![c] = [v |-> doc.version, epoch |-> epochs + 1, keys |-> ks]]
    BY <1>3 DEF RequestRekey, Covers
  <2>2. at' = [at EXCEPT ![c] = "rekeying"]
    BY <1>3 DEF RequestRekey
  <2> QED
    BY <1>1, <1>2, <2>1, <2>2 DEF Legible
<1>4. CASE Save(c) \/ WriteRow(c) \/ FinishSave(c)
  <2>1. rekey' = rekey /\ \E place \in {"saving", "wrote", "idle"} : at' = [at EXCEPT ![c] = place]
    BY <1>4 DEF Save, Submit, WriteRow, FinishSave
  <2> QED
    BY <1>1, <1>2, <2>1 DEF Legible
<1> QED
  BY <1>3, <1>4

\* The end of a rekey that was refused or failed, which keeps the instance as it is, ...
LEMMA LegibleEnd ==
    ASSUME Sound, CommitsServed, Legible, NEW c \in Conns,
           RefuseRekey(c) \/ CommitRekey(c) \/ FailRekey(c)
    PROVE  Legible'
<1>1. at \in [Conns -> Places] /\ rekey \in [Conns -> Rekey]
  BY DEF Sound, TypeOK
<1>2. /\ Served(c) /\ doc' = doc /\ row' \in {row, txn}
      /\ row' = txn => row' = row \/ at[c] = "committing"
      /\ at' = [at EXCEPT ![c] = "idle"] /\ rekey' = [rekey EXCEPT ![c] = NoRekey]
  BY DEF RefuseRekey, CommitRekey, FailRekey, EndRekey, CommitsServed
<1>3. Readable(doc') /\ Readable(row')
  BY <1>2 DEF Legible
<1>4. \A x \in Conns : at'[x] # "committing"
  BY <1>1, <1>2, OnlyServed
<1>5. \A x \in Conns : at'[x] = "rekeying" => rekey'[x].v = doc'.version
  BY <1>1, <1>2 DEF Legible
<1> QED
  BY <1>3, <1>4, <1>5 DEF Legible

\* ... and its assignments to the instance, which cover the version of now.
LEMMA LegibleApply ==
    ASSUME Sound, Legible, NEW c \in Conns, ApplyRekey(c)
    PROVE  Legible'
<1>1. /\ at \in [Conns -> Places] /\ rekey[c] \in Rekey /\ doc \in Doc
  BY DEF Sound, TypeOK
<1>2. /\ doc' = Rekeyed(rekey[c]) /\ txn' = doc' /\ rekey[c].v = doc.version
      /\ at' = [at EXCEPT ![c] = "committing"] /\ UNCHANGED <<row, rekey>>
  BY DEF ApplyRekey, Legible
<1>3. Rekeyed(rekey[c]) \in Doc
  BY <1>1, RekeyedDoc
<1>4. /\ Rekeyed(rekey[c]).version = doc.version /\ Rekeyed(rekey[c]).snap = rekey[c].v
      /\ Rekeyed(rekey[c]).epoch = rekey[c].epoch
      /\ Rekeyed(rekey[c]).content = [v |-> rekey[c].v, epoch |-> rekey[c].epoch]
  BY <1>1 DEF Rekeyed, Doc
<1>5. Readable(Rekeyed(rekey[c]))
  BY <1>2, <1>3, <1>4, ReadableAtOnce
<1> QED
  BY <1>1, <1>2, <1>4, <1>5 DEF Legible

LEMMA LegibleStep ==
    ASSUME PromptSnapshots, RekeyAlone, Sound, CommitsServed, Legible, [Next]_vars
    PROVE  Legible'
<1>1. CASE UNCHANGED vars
  BY <1>1 DEF vars, Legible
<1>2. CASE Restart
  BY <1>2 DEF Restart, Legible
<1>3. CASE \E c \in Conns : AcceptDiff(c) \/ AcceptSnapshot(c)
  BY <1>3, LegibleDiff, LegibleSnapshot
<1>4. CASE \E c \in Conns : Save(c) \/ WriteRow(c) \/ FinishSave(c) \/ RequestRekey(c)
  BY <1>4, LegibleRest
<1>5. CASE \E c \in Conns : \/ RefuseRekey(c) \/ ApplyRekey(c)
                            \/ CommitRekey(c) \/ FailRekey(c)
  BY <1>5, LegibleEnd, LegibleApply
<1> QED
  BY <1>1, <1>2, <1>3, <1>4, <1>5 DEF Next

\* If a snapshot comes before the diffs it makes needless are trimmed, and nobody writes
\* during a rekey, then document and row can always be put together from snapshot and
\* diffs, wherever the database refuses and for every history length.
THEOREM DocumentReadableCorrect ==
    ASSUME PromptSnapshots, RekeyAlone PROVE Spec => []DocumentReadable
<1>1. Sound /\ CommitsServed /\ Legible /\ [Next]_vars => Legible'
  BY LegibleStep
<1>2. Legible => DocumentReadable
  BY DEF Legible, DocumentReadable
<1> QED
  BY <1>1, <1>2, LegibleInit, AlwaysSound, PTL DEF Spec
=============================================================================
