---------------------------- MODULE Users_proofs ----------------------------
(***************************************************************************)
(* Theorems about what belongs to users: that nobody replaces encryption   *)
(* keys he has not seen, for any number of devices, saves and resets,      *)
(* unless a record was created with keys that had been reset; that every   *)
(* envelope holds the key of the document, for any users and any number of *)
(* changes of the key, when nothing else runs while the key is changed;    *)
(* that a device which does not seem to be behind has the bibliography its *)
(* user saved, for any number of devices, entries and requests; and that   *)
(* an account is as its user's requests left it, for any number of         *)
(* requests and addresses, unless two of them crossed or one broke.        *)
(***************************************************************************)
EXTENDS EncryptionKeys, Envelopes, Bibliography, Accounts,
        FiniteSetTheorems, TLAPS

-----------------------------------------------------------------------------
(* A user's encryption keys.                                               *)

Busy(d) == call[d] # Free

CallsTyped ==
    call \in [Devices -> {Free}
        \cup [at : {"create"}, key : Nat \ {0}, wraps : Nat \ {0}]
        \cup [at : {"replace"}, key : Nat \ {0}, wraps : Nat \ {0},
            id : Nat \ {0}, expected : Nat]]

Typed ==
    /\ record \in Record /\ known \in [Devices -> Record] /\ CallsTyped
    /\ keySaves \in Nat /\ {unseen, restored} \subseteq BOOLEAN
    /\ Exists => record.id > 0 /\ record.key > 0

\* No number is above that of the last save.
KeysNumbered ==
    /\ record.id <= keySaves /\ record.key <= keySaves
    /\ \A d \in Devices : known[d].key <= keySaves
    /\ \A d \in Devices : Busy(d) => call[d].wraps <= keySaves /\ call[d].key <= keySaves
    /\ \A d \in Devices : call[d].at = "replace" => call[d].id <= keySaves

\* The number of a save under way names no row and no key but those it brings itself.
NumberIsNew ==
    \A d \in Devices : Busy(d) =>
        /\ call[d].wraps # record.id /\ call[d].wraps # record.key
        /\ \A e \in Devices : known[e].key # call[d].wraps
        /\ \A e \in Devices \ {d} : Busy(e) => call[e].wraps # call[d].wraps
                                            /\ call[e].key # call[d].wraps
        /\ \A e \in Devices : call[e].at = "replace" => call[e].id # call[d].wraps

\* A call brings new keys, or those its device knows.
KeysBrought ==
    \A d \in Devices : Busy(d) => call[d].key \in {call[d].wraps, known[d].key}

\* A device that knows the record's public key knows a version of this record, and an
\* update under way is based on one; what a device is about to create is not there.
VersionKnown(d) ==
    /\ known[d].key = record.key =>
          /\ known[d].version <= record.version
          /\ known[d].version = record.version => known[d] = Contents(record)
    /\ call[d].at = "replace" /\ call[d].id = record.id =>
          /\ call[d].expected <= record.version
          /\ call[d].expected = record.version => known[d] = Contents(record)
    /\ call[d].at = "create" => call[d].key # record.key

KnownIsAVersion == Exists => \A d \in Devices : VersionKnown(d)

KeysInv ==
    /\ Typed /\ KeysNumbered /\ NumberIsNew /\ KeysBrought
    /\ ~restored => ~unseen /\ KnownIsAVersion

\* At the start there is no record, and nothing is under way.
LEMMA KeysInitInv == KeysInit => KeysInv
<1> SUFFICES ASSUME KeysInit PROVE KeysInv
    OBVIOUS
<1> USE DEF KeysInit, NoRecord
<1>1. Typed
    BY DEF Typed, CallsTyped, Record, Exists
<1>2. KeysNumbered /\ NumberIsNew /\ KeysBrought
    BY DEF KeysNumbered, NumberIsNew, KeysBrought, Busy, Free
<1>3. KnownIsAVersion
    BY DEF KnownIsAVersion, Exists
<1> QED
    BY <1>1, <1>2, <1>3 DEF KeysInv

\* What is under way is one of these.
LEMMA CallCases ==
    ASSUME Typed, NEW d \in Devices
    PROVE  \/ call[d] = Free /\ ~Busy(d) /\ call[d].at = "free"
           \/ /\ call[d] \in [at : {"create"}, key : Nat \ {0}, wraps : Nat \ {0}]
              /\ Busy(d)
           \/ /\ call[d] \in [at : {"replace"}, key : Nat \ {0}, wraps : Nat \ {0},
                              id : Nat \ {0}, expected : Nat]
              /\ Busy(d)
BY DEF Typed, CallsTyped, Busy, Free

\* Reading the record.
LEMMA GetInv == ASSUME KeysInv, NEW d \in Devices, Get(d) PROVE KeysInv'
<1> USE DEF KeysInv, Get
<1>1. Contents(record) \in Record /\ Contents(record).key = record.key
      /\ Contents(record).version = record.version
    BY DEF Typed, Record, Contents
<1>2. Typed'
    BY <1>1 DEF Typed, CallsTyped, Exists
<1>3. KeysNumbered'
    BY <1>1 DEF Typed, KeysNumbered, Busy
<1>4. NumberIsNew'
    BY <1>1 DEF Typed, NumberIsNew, Busy
<1>5. KeysBrought'
    BY <1>1 DEF Typed, KeysBrought, Busy
<1>6. KnownIsAVersion => KnownIsAVersion'
  <2> SUFFICES ASSUME KnownIsAVersion, Exists, NEW e \in Devices
               PROVE  VersionKnown(e)'
      BY DEF KnownIsAVersion, Exists
  <2>1. CASE e = d
      BY <1>1, <2>1 DEF Typed, Record, Free, Contents, VersionKnown
  <2>2. CASE e # d
      BY <2>2 DEF Typed, KnownIsAVersion, Contents, VersionKnown
  <2> QED
      BY <2>1, <2>2
<1> QED
    BY <1>2, <1>3, <1>4, <1>5, <1>6

\* A save reads the record and decides what is to be done.
LEMMA SaveInv == ASSUME KeysInv, NEW d \in Devices, Save(d) PROVE KeysInv'
<1> USE DEF KeysInv
<1>1. PICK key \in {keySaves + 1, known[d].key} \ {0} :
        /\ call[d] = Free
        /\ call' = [call EXCEPT ![d] =
              IF ~Exists THEN [at |-> "create", key |-> key, wraps |-> keySaves']
              ELSE IF known[d] # NoRecord /\ NamesKey(d)
              THEN [at |-> "replace", key |-> key, wraps |-> keySaves', id |-> record.id,
                    expected |-> known[d].version]
              ELSE Free]
    BY DEF Save
<1>2. keySaves' = keySaves + 1 /\ UNCHANGED <<record, known, resets, unseen, restored>>
    BY DEF Save
<1>3. key \in Nat \ {0} /\ key <= keySaves' /\ keySaves' \in Nat
    BY <1>2 DEF Typed, Record, KeysNumbered
<1>4. \/ call'[d] = Free
      \/ ~Exists /\ call'[d] = [at |-> "create", key |-> key, wraps |-> keySaves']
      \/ /\ Exists /\ NamesKey(d)
         /\ call'[d] = [at |-> "replace", key |-> key, wraps |-> keySaves', id |-> record.id,
                        expected |-> known[d].version]
    BY <1>1 DEF Typed, CallsTyped
<1>5. \A e \in Devices \ {d} : call'[e] = call[e]
    BY <1>1 DEF Typed, CallsTyped
<1>6. Typed'
  <2>1. CallsTyped'
      BY <1>1, <1>2, <1>3, <1>4 DEF Typed, CallsTyped, Record
  <2> QED
      BY <1>2, <1>3, <2>1 DEF Typed, Exists
<1>7. KeysNumbered'
  <2>1. record'.id <= keySaves' /\ record'.key <= keySaves'
        /\ \A e \in Devices : known'[e].key <= keySaves'
      BY <1>2 DEF Typed, Record, KeysNumbered
  <2>2. \A e \in Devices :
          /\ Busy(e)' => call'[e].wraps <= keySaves' /\ call'[e].key <= keySaves'
          /\ call'[e].at = "replace" => call'[e].id <= keySaves'
    <3> SUFFICES ASSUME NEW e \in Devices
                 PROVE  /\ Busy(e)' => call'[e].wraps <= keySaves' /\ call'[e].key <= keySaves'
                        /\ call'[e].at = "replace" => call'[e].id <= keySaves'
        OBVIOUS
    <3>1. CASE e = d
        BY <1>2, <1>3, <1>4, <2>1, <3>1 DEF Busy, Free
    <3>2. CASE e # d
        BY <1>2, <1>5, <3>2, CallCases DEF KeysNumbered, Busy, Typed
    <3> QED
        BY <3>1, <3>2
  <2> QED
      BY <2>1, <2>2 DEF KeysNumbered
<1>8. NumberIsNew'
  <2> SUFFICES ASSUME NEW e \in Devices, Busy(e)'
               PROVE  /\ call'[e].wraps # record'.id /\ call'[e].wraps # record'.key
                      /\ \A f \in Devices : known'[f].key # call'[e].wraps
                      /\ \A f \in Devices \ {e} :
                            Busy(f)' => call'[f].wraps # call'[e].wraps
                                        /\ call'[f].key # call'[e].wraps
                      /\ \A f \in Devices :
                            call'[f].at = "replace" => call'[f].id # call'[e].wraps
      BY DEF NumberIsNew
  <2>1. CASE e = d
    <3>1. call'[e].wraps = keySaves + 1
        BY <1>2, <1>4, <2>1 DEF Busy
    <3>2. \A f \in Devices : Busy(f) => call[f].wraps <= keySaves /\ call[f].key <= keySaves
        BY DEF KeysNumbered
    <3>3. \A f \in Devices : Busy(f) => call[f].wraps \in Nat /\ call[f].key \in Nat
        BY CallCases
    <3>4. \A f \in Devices : call[f].at = "replace" => call[f].id <= keySaves /\ call[f].id \in Nat
        BY CallCases DEF KeysNumbered
    <3>5. \A f \in Devices : call'[f].at = "replace" => call'[f].id <= keySaves /\ call'[f].id \in Nat
        BY <1>4, <1>5, <3>4 DEF Typed, Record, KeysNumbered, Free
    <3> QED
        BY <1>2, <1>5, <2>1, <3>1, <3>2, <3>3, <3>5 DEF Typed, Record, KeysNumbered, Busy
  <2>2. CASE e # d
    <3>1. call'[e] = call[e] /\ Busy(e)
        BY <1>5, <2>2 DEF Busy
    <3>2. call[e].wraps \in Nat /\ call[e].wraps <= keySaves
        BY <3>1, CallCases DEF KeysNumbered
    <3>3. call[e].wraps # key
        BY <1>2, <3>1, <3>2 DEF Typed, NumberIsNew
    <3>4. call[e].wraps # keySaves'
        BY <1>2, <3>2 DEF Typed
    <3> QED
        BY <1>2, <1>4, <1>5, <3>1, <3>3, <3>4 DEF NumberIsNew, Busy, Free
  <2> QED
      BY <2>1, <2>2
<1>9. KeysBrought'
  <2> SUFFICES ASSUME NEW e \in Devices, Busy(e)'
               PROVE  call'[e].key \in {call'[e].wraps, known'[e].key}
      BY DEF KeysBrought
  <2>1. CASE e = d
      BY <1>2, <1>4, <2>1 DEF Busy
  <2>2. CASE e # d
      BY <1>2, <1>5, <2>2 DEF Busy, KeysBrought
  <2> QED
      BY <2>1, <2>2
<1>10. KnownIsAVersion => KnownIsAVersion'
  <2> SUFFICES ASSUME KnownIsAVersion, Exists, NEW e \in Devices
               PROVE  VersionKnown(e)'
      BY <1>2 DEF KnownIsAVersion, Exists
  <2>1. VersionKnown(e)
      BY DEF KnownIsAVersion
  <2>2. CASE e = d
      BY <1>2, <1>4, <2>1, <2>2 DEF VersionKnown, NamesKey, Contents, Free
  <2>3. CASE e # d
      BY <1>2, <1>5, <2>1, <2>3 DEF VersionKnown, Contents
  <2> QED
      BY <2>2, <2>3
<1> QED
    BY <1>2, <1>6, <1>7, <1>8, <1>9, <1>10

\* The save of a device that found no record.
LEMMA CreateInv == ASSUME KeysInv, NEW d \in Devices, Create(d) PROVE KeysInv'
<1> USE DEF KeysInv
<1> DEFINE made == [id |-> call[d].wraps, key |-> call[d].key, wraps |-> call[d].wraps,
                    version |-> 0]
<1>1. /\ call[d] \in [at : {"create"}, key : Nat \ {0}, wraps : Nat \ {0}]
      /\ Busy(d)
    BY CallCases DEF Create
<1>2. /\ record' = IF Exists THEN record ELSE made
      /\ known' = [known EXCEPT ![d] = [made EXCEPT !.id = 0, !.version = record'.version]]
      /\ call' = [call EXCEPT ![d] = Free]
      /\ restored' = (restored \/ (~Exists /\ made.key # made.wraps))
      /\ UNCHANGED <<keySaves, resets, unseen>>
    BY DEF Create, Contents
<1>3. \A e \in Devices : Busy(e)' <=> e # d /\ Busy(e)
    BY <1>2 DEF Busy, Typed, CallsTyped
<1>4. \A e \in Devices \ {d} : call'[e] = call[e] /\ known'[e] = known[e]
    BY <1>2 DEF Typed, CallsTyped
<1>5. call'[d] = Free /\ known'[d].key = call[d].key /\ known'[d].wraps = call[d].wraps
      /\ known'[d].id = 0 /\ known'[d].version = record'.version
    BY <1>2 DEF Typed, CallsTyped
<1>6. Typed'
  <2>1. record' \in Record /\ (Exists' => record'.id > 0 /\ record'.key > 0)
      BY <1>1, <1>2 DEF Typed, Record, Exists
  <2>2. known' \in [Devices -> Record] /\ CallsTyped'
      BY <1>1, <1>2, <2>1 DEF Typed, Record, CallsTyped
  <2>3. {unseen, restored}' \subseteq BOOLEAN
      BY <1>2 DEF Typed
  <2> QED
      BY <1>2, <2>1, <2>2, <2>3 DEF Typed
<1>7. KeysNumbered'
    BY <1>1, <1>2, <1>3, <1>4, <1>5 DEF Typed, KeysNumbered, Free
<1>8. NumberIsNew'
    BY <1>1, <1>2, <1>3, <1>4, <1>5 DEF NumberIsNew, Free
<1>9. KeysBrought'
    BY <1>3, <1>4 DEF KeysBrought
<1>10. ASSUME ~restored' PROVE ~unseen' /\ KnownIsAVersion'
  <2>1. ~restored /\ ~unseen /\ KnownIsAVersion /\ unseen' = unseen
      BY <1>2, <1>10
  <2> SUFFICES ASSUME Exists', NEW e \in Devices PROVE VersionKnown(e)'
      BY <2>1 DEF KnownIsAVersion
  <2>2. CASE Exists
    <3>1. record' = record
        BY <1>2, <2>2
    <3>2. VersionKnown(e) /\ VersionKnown(d)
        BY <2>1, <2>2 DEF KnownIsAVersion
    <3>3. CASE e = d
        BY <1>1, <1>5, <3>1, <3>2, <3>3 DEF VersionKnown, Free
    <3>4. CASE e # d
        BY <1>4, <3>1, <3>2, <3>4 DEF VersionKnown, Contents
    <3> QED
        BY <3>3, <3>4
  <2>3. CASE ~Exists
    <3>1. record' = made /\ call[d].key = call[d].wraps
        BY <1>2, <1>10, <2>1, <2>3
    <3>2. CASE e = d
      <4>1. known'[d] = Contents(record)'
          BY <1>1, <1>2, <3>1 DEF Contents, Typed, Record
      <4> QED
          BY <1>5, <3>1, <3>2, <4>1 DEF VersionKnown, Free
    <3>3. CASE e # d
      <4>1. known[e].key # call[d].key
            /\ (call[e].at = "replace" => call[e].id # call[d].wraps)
            /\ (Busy(e) => call[e].key # call[d].key)
          BY <1>1, <3>1, <3>3 DEF NumberIsNew
      <4>2. call[e].at = "create" => Busy(e)
          BY CallCases
      <4> QED
          BY <1>4, <3>1, <3>3, <4>1, <4>2 DEF VersionKnown
    <3> QED
        BY <3>2, <3>3
  <2> QED
      BY <2>2, <2>3
<1> QED
    BY <1>6, <1>7, <1>8, <1>9, <1>10

\* An update that finds the record as it was.
LEMMA ReplaceInv == ASSUME KeysInv, NEW d \in Devices, Replace(d) PROVE KeysInv'
<1> USE DEF KeysInv
<1> DEFINE made == [id |-> call[d].id, key |-> call[d].key, wraps |-> call[d].wraps,
                    version |-> call[d].expected + 1]
<1>1. /\ call[d] \in [at : {"replace"}, key : Nat \ {0}, wraps : Nat \ {0},
                     id : Nat \ {0}, expected : Nat]
      /\ Busy(d)
    BY CallCases DEF Replace
<1>2. /\ record.id = call[d].id /\ record.version = call[d].expected
      /\ record' = made
      /\ known' = [known EXCEPT ![d] = Contents(made)]
      /\ unseen' = (unseen \/ known[d] # Contents(record))
      /\ call' = [call EXCEPT ![d] = Free]
      /\ UNCHANGED <<keySaves, resets, restored>>
    BY DEF Replace, SameRecord
<1>3. \A e \in Devices : Busy(e)' <=> e # d /\ Busy(e)
    BY <1>2 DEF Busy, Typed, CallsTyped
<1>4. \A e \in Devices \ {d} : call'[e] = call[e] /\ known'[e] = known[e]
    BY <1>2 DEF Typed, CallsTyped
<1>5. call'[d] = Free /\ known'[d] = Contents(made) /\ known'[d].key = call[d].key
    BY <1>2 DEF Typed, CallsTyped, Contents
<1>6. Exists
    BY <1>1, <1>2 DEF Exists, NoRecord
<1>7. Typed'
  <2>1. record' \in Record /\ Contents(made) \in Record
      BY <1>1, <1>2 DEF Record, Contents
  <2>2. record'.id > 0 /\ record'.key > 0
      BY <1>1, <1>2
  <2>3. known' \in [Devices -> Record] /\ CallsTyped'
      BY <1>2, <2>1 DEF Typed, CallsTyped
  <2>4. unseen' \in BOOLEAN /\ restored' \in BOOLEAN
      BY Zenon, <1>2 DEF Typed
  <2> QED
      BY <1>2, <2>1, <2>2, <2>3, <2>4 DEF Typed
<1>8. KeysNumbered'
    BY <1>1, <1>2, <1>3, <1>4, <1>5 DEF Typed, KeysNumbered, Free
<1>9. NumberIsNew'
    BY <1>1, <1>2, <1>3, <1>4, <1>5 DEF NumberIsNew, Free
<1>10. KeysBrought'
    BY <1>3, <1>4 DEF KeysBrought
<1>11. ASSUME ~restored' PROVE ~unseen' /\ KnownIsAVersion'
  <2>1. ~restored /\ ~unseen /\ KnownIsAVersion
      BY <1>2, <1>11
  <2>2. known[d] = Contents(record)
      BY <1>1, <1>2, <1>6, <2>1 DEF KnownIsAVersion, VersionKnown, Typed, Record
  <2>3. ~unseen'
      BY <1>2, <2>1, <2>2
  <2>4. ASSUME NEW e \in Devices PROVE VersionKnown(e)'
    <3>1. VersionKnown(e)
        BY <1>6, <2>1 DEF KnownIsAVersion
    <3>2. call[d].key \in {call[d].wraps, record.key}
        <4>1. known[d].key = record.key
          BY <2>2 DEF Contents, Typed, Record
      <4> QED
          BY <1>1, <4>1 DEF KeysBrought
    <3>3. CASE e = d
      <4>1. known'[d] = Contents(record)' /\ call'[d].at = "free"
          BY <1>2, <1>5 DEF Free, Contents
      <4>2. known'[d].version = record'.version /\ record'.version \in Nat
          BY <1>1, <1>2, <1>5 DEF Contents
      <4> QED
          BY <3>3, <4>1, <4>2 DEF VersionKnown
    <3>4. CASE e # d
      <4>1. call[d].wraps # known[e].key /\ (Busy(e) => call[e].key # call[d].wraps)
          BY <1>1, <3>4 DEF NumberIsNew
      <4>2. known[e] \in Record /\ record.version \in Nat /\ record'.version = record.version + 1
          BY <1>1, <1>2 DEF Typed, Record
      <4>3. call'[e] = call[e] /\ known'[e] = known[e]
          BY <1>4, <3>4
      <4>4. known[e].key = record'.key =>
                known[e].version <= record.version /\ known[e].version \in Nat
          BY <1>2, <3>1, <3>2, <4>1, <4>2 DEF VersionKnown, Record
      <4>5. call[e].at = "replace" /\ call[e].id = record'.id =>
                call[e].expected <= record.version /\ call[e].expected \in Nat
          BY <1>2, <3>1, CallCases DEF VersionKnown
      <4>6. call[e].at = "create" => call[e].key # record'.key
          BY <1>2, <3>1, <3>2, <4>1, CallCases DEF VersionKnown
      <4> QED
          BY <4>2, <4>3, <4>4, <4>5, <4>6 DEF VersionKnown
    <3> QED
        BY <3>3, <3>4
  <2> QED
      BY <2>3, <2>4 DEF KnownIsAVersion
<1> QED
    BY <1>7, <1>8, <1>9, <1>10, <1>11

\* An update that finds another record, or another version, writes nothing.
LEMMA ConflictInv == ASSUME KeysInv, NEW d \in Devices, Conflict(d) PROVE KeysInv'
<1> USE DEF KeysInv, Conflict
<1>1. \A e \in Devices : /\ Busy(e)' <=> e # d /\ Busy(e)
                         /\ e # d => call'[e] = call[e]
                         /\ call'[d] = Free
    BY DEF Busy, Typed, CallsTyped
<1>2. Typed'
    BY DEF Typed, CallsTyped, Exists
<1>3. KeysNumbered' /\ NumberIsNew' /\ KeysBrought'
    BY <1>1 DEF KeysNumbered, NumberIsNew, KeysBrought, Free
<1>4. KnownIsAVersion => KnownIsAVersion'
    BY <1>1 DEF KnownIsAVersion, VersionKnown, Exists, Contents, Free
<1> QED
    BY <1>2, <1>3, <1>4

\* An administrator deletes the record.
LEMMA ResetInv == ASSUME KeysInv, Reset PROVE KeysInv'
<1> USE DEF KeysInv, Reset
<1>1. Typed'
    BY DEF Typed, CallsTyped, Exists, NoRecord, Record
<1>2. \A e \in Devices : Busy(e) => call[e].wraps > 0
    BY CallCases
<1>3. KeysNumbered' /\ NumberIsNew' /\ KeysBrought'
    BY <1>2 DEF KeysNumbered, NumberIsNew, KeysBrought, Busy, NoRecord, Typed
<1>4. KnownIsAVersion'
    BY DEF KnownIsAVersion, Exists
<1> QED
    BY <1>1, <1>3, <1>4

\* Every call, in its two parts, keeps the invariant.
LEMMA KeysStepInv == KeysInv /\ [KeysNext]_keysVars => KeysInv'
<1> SUFFICES ASSUME KeysInv, [KeysNext]_keysVars PROVE KeysInv'
    OBVIOUS
<1>1. CASE KeysNext
    BY <1>1, GetInv, SaveInv, CreateInv, ReplaceInv, ConflictInv, ResetInv DEF KeysNext
<1>2. CASE UNCHANGED keysVars
    BY <1>2 DEF keysVars, KeysInv, Typed, CallsTyped, KeysNumbered, NumberIsNew, KeysBrought,
                KnownIsAVersion, VersionKnown, Exists, Contents, Busy
<1> QED
    BY <1>1, <1>2

\* Every variable stays in its domain, for any number of devices, saves and resets.
THEOREM KeysTypeCorrect == KeysSpec => []KeysTypeOK
<1>1. KeysInv => KeysTypeOK
  <2> SUFFICES ASSUME KeysInv PROVE KeysTypeOK
      OBVIOUS
  <2>1. \A d \in Devices : call[d] \in [at : {"free"}]
          \cup [at : {"create"}, key : Nat \ {0}, wraps : Nat \ {0}]
          \cup [at : {"replace"}, key : Nat \ {0}, wraps : Nat \ {0}, id : Nat, expected : Nat]
    <3>1. CallsTyped /\ Free \in [at : {"free"}]
        BY DEF KeysInv, Typed, Free
    <3> QED
        BY <3>1 DEF CallsTyped
  <2> QED
      BY <2>1 DEF KeysInv, Typed, CallsTyped, KeysTypeOK
<1> QED
    BY KeysInitInv, KeysStepInv, <1>1, PTL DEF KeysSpec

\* Keys are replaced only by a device that has seen them, in this very version, unless a
\* record was created with keys that had been reset: the public key that save_encryption_key
\* has named and the version it compares, together with the id of the row it read, say so.
THEOREM ReplacedWereSeenCorrect == KeysSpec => []ReplacedWereSeen
<1>1. KeysInv => ReplacedWereSeen
    BY DEF KeysInv, ReplacedWereSeen
<1> QED
    BY KeysInitInv, KeysStepInv, <1>1, PTL DEF KeysSpec

-----------------------------------------------------------------------------
(* A document's envelopes.                                                 *)

\* Domains, as far as the proof needs them.
EnvelopeDomains ==
    /\ calm \in BOOLEAN /\ epoch \in Nat /\ lastRow \in Nat
    /\ envelope \in [Parties -> [id : Nat, key : Nat]]
    /\ knowsKey \in [Parties -> Nat]
    /\ request \in [Parties -> {NoRequest}
                        \cup [at : {"drop"}, of : Parties]
                        \cup [at : {"save"}, of : Parties, id : Nat, key : Nat]]
    /\ rekeying \in {NotRekeying} \cup [at : {"listed", "checked"}, for : SUBSET Parties]

\* The key in an envelope is the document's; what a browser knows, and a request is about
\* to write, is that key too.
KeyIsCurrent ==
    /\ \A u \in Parties : HasEnvelope(u) => envelope[u].key = epoch
    /\ \A u \in Parties : knowsKey[u] \in {0, epoch}
    /\ \A u \in Parties : request[u].at = "save" => request[u].key = epoch

\* Between the comparison of a rekey and its transaction nothing moves.
RekeyAlone ==
    rekeying.at = "checked" =>
        /\ Undisturbed
        /\ \A u \in Parties : HasEnvelope(u) => u \in rekeying.for

EnvelopesInv == EnvelopeDomains /\ (calm => KeyIsCurrent /\ RekeyAlone)

\* At the start the owner has the only envelope, and it holds the first key.
LEMMA EnvelopesInitInv == EnvelopesInit => EnvelopesInv
<1> SUFFICES ASSUME EnvelopesInit PROVE EnvelopesInv
    OBVIOUS
<1> USE DEF EnvelopesInit
<1>1. EnvelopeDomains
    BY DEF EnvelopeDomains, Parties, NoEnvelope
<1>2. KeyIsCurrent
    BY DEF KeyIsCurrent, HasEnvelope, NoRequest, NoEnvelope
<1>3. RekeyAlone
    BY DEF RekeyAlone, NotRekeying
<1> QED
    BY <1>1, <1>2, <1>3 DEF EnvelopesInv

\* Every request, every change of a right and every part of a rekey keeps it.
LEMMA EnvelopesStepInv == EnvelopesInv /\ [EnvelopesNext]_envelopeVars => EnvelopesInv'
<1> SUFFICES ASSUME EnvelopesInv, [EnvelopesNext]_envelopeVars
             PROVE  EnvelopesInv'
    OBVIOUS
<1> USE DEF EnvelopesInv
<1>a. ASSUME UNCHANGED <<calm, epoch, envelope, knowsKey, request, rekeying, lastRow>>
      PROVE  EnvelopesInv'
    BY <1>a DEF EnvelopeDomains, KeyIsCurrent, RekeyAlone, HasEnvelope, Undisturbed
<1>1. ASSUME NEW u \in Partners, Share(u) \/ Revoke(u) PROVE EnvelopesInv'
    BY <1>1, <1>a DEF Share, Revoke
<1>2. ASSUME NEW u \in Partners, DropContact(u), calm => rekeying.at # "checked"
      PROVE  EnvelopesInv'
  <2> USE <1>2 DEF DropContact
  <2>1. u \in Parties /\ "owner" \in Parties
      BY DEF Parties
  <2>2. EnvelopeDomains'
      BY <2>1 DEF EnvelopeDomains
  <2>3. ASSUME calm PROVE KeyIsCurrent'
      BY <2>1, <2>3 DEF KeyIsCurrent, EnvelopeDomains, HasEnvelope
  <2>4. ASSUME calm PROVE RekeyAlone'
      BY <2>4 DEF RekeyAlone
  <2> QED
      BY <2>2, <2>3, <2>4
<1>3. ASSUME NEW u \in Parties, FetchKey(u), calm => rekeying.at # "checked"
      PROVE  EnvelopesInv'
  <2> USE <1>3 DEF FetchKey, Handed
  <2>1. EnvelopeDomains'
      BY DEF EnvelopeDomains
  <2>2. ASSUME calm PROVE KeyIsCurrent'
      BY <2>2 DEF KeyIsCurrent, EnvelopeDomains, HasEnvelope
  <2>3. ASSUME calm PROVE RekeyAlone'
      BY <2>3 DEF RekeyAlone
  <2> QED
      BY <2>1, <2>2, <2>3
<1>4. ASSUME NEW u \in Parties, WriteKey(u), calm => rekeying.at # "checked"
      PROVE  EnvelopesInv'
  <2> DEFINE r == request[u]
  <2>1. r \in [at : {"save"}, of : Parties, id : Nat, key : Nat]
      BY <1>4 DEF WriteKey, EnvelopeDomains, NoRequest
  <2>2. EnvelopeDomains'
      BY <1>4, <2>1 DEF WriteKey, EnvelopeDomains
  <2>3. ASSUME calm PROVE KeyIsCurrent'
    <3>1. r.key = epoch
        BY <1>4, <2>3 DEF WriteKey, KeyIsCurrent
    <3>2. \A v \in Parties : HasEnvelope(v)' => envelope'[v].key = epoch'
        BY <1>4, <2>1, <2>3, <3>1 DEF WriteKey, KeyIsCurrent, EnvelopeDomains, HasEnvelope, NoEnvelope
    <3>3. \A v \in Parties : request'[v].at = "save" => request'[v].key = epoch'
        BY <1>4, <2>3 DEF WriteKey, KeyIsCurrent, EnvelopeDomains, NoRequest
    <3> QED
        BY <1>4, <2>3, <3>2, <3>3 DEF WriteKey, KeyIsCurrent
  <2>4. ASSUME calm PROVE RekeyAlone'
      BY <1>4, <2>4 DEF WriteKey, RekeyAlone
  <2> QED
      BY <1>4, <2>2, <2>3, <2>4 DEF WriteKey
<1>5. ASSUME NEW u \in Parties, NEW h \in Parties,
             SaveKey(u, h) \/ UpgradeKey(u, h), calm => rekeying.at # "checked"
      PROVE  EnvelopesInv'
  <2>1. EnvelopeDomains'
    <3>1. CASE SaveKey(u, h) /\ ~HasEnvelope(h)
        BY <3>1, SMTT(20) DEF SaveKey, EnvelopeDomains, EnvelopesInv
    <3>2. CASE (SaveKey(u, h) /\ HasEnvelope(h)) \/ UpgradeKey(u, h)
        BY <3>2 DEF SaveKey, UpgradeKey, EnvelopeDomains, EnvelopesInv
    <3> QED
        BY <1>5, <3>1, <3>2
  <2>2. ASSUME calm PROVE KeyIsCurrent'
    <3>1. KeyIsCurrent
        BY <2>2
    <3>2. knowsKey[u] = epoch
        BY <1>5, <3>1 DEF SaveKey, UpgradeKey, KeyIsCurrent
    <3>3. CASE SaveKey(u, h) /\ ~HasEnvelope(h)
        BY <3>1, <3>2, <3>3 DEF SaveKey, KeyIsCurrent, EnvelopeDomains, HasEnvelope
    <3>4. CASE (SaveKey(u, h) /\ HasEnvelope(h)) \/ UpgradeKey(u, h)
        BY <3>1, <3>2, <3>4 DEF SaveKey, UpgradeKey, KeyIsCurrent, EnvelopeDomains, HasEnvelope
    <3> QED
        BY <1>5, <3>3, <3>4
  <2>3. ASSUME calm PROVE RekeyAlone'
      BY <1>5, <2>3 DEF SaveKey, UpgradeKey, RekeyAlone
  <2> QED
      BY <1>5, <2>1, <2>2, <2>3 DEF SaveKey, UpgradeKey
<1>6. ASSUME DropEnvelope, calm => rekeying.at # "checked"
      PROVE  EnvelopesInv'
  <2>1. "owner" \in Parties
      BY DEF Parties
  <2>2. request["owner"].of \in Parties
      BY <1>6, <2>1 DEF DropEnvelope, EnvelopeDomains, NoRequest
  <2>3. EnvelopeDomains'
      BY <1>6, <2>1, <2>2 DEF DropEnvelope, EnvelopeDomains, NoEnvelope
  <2>4. ASSUME calm PROVE KeyIsCurrent'
      BY <1>6, <2>1, <2>2, <2>4 DEF DropEnvelope, EnvelopeDomains, KeyIsCurrent, HasEnvelope, NoRequest
  <2>5. ASSUME calm PROVE RekeyAlone'
      BY <1>6, <2>5 DEF DropEnvelope, RekeyAlone
  <2> QED
      BY <1>6, <2>3, <2>4, <2>5 DEF DropEnvelope
<1>7. ASSUME ListHolders PROVE EnvelopesInv'
  <2>1. EnvelopeDomains'
      BY <1>7 DEF ListHolders, EnvelopeDomains
  <2>2. RekeyAlone' /\ (KeyIsCurrent => KeyIsCurrent')
      BY <1>7 DEF ListHolders, RekeyAlone, KeyIsCurrent, HasEnvelope
  <2> QED
      BY <1>7, <2>1, <2>2 DEF ListHolders
<1>8. ASSUME CheckRekey PROVE EnvelopesInv'
  <2>1. rekeying \in [at : {"listed", "checked"}, for : SUBSET Parties]
      BY <1>8 DEF CheckRekey, EnvelopeDomains, NotRekeying
  <2>2. EnvelopeDomains'
      BY <1>8, <2>1 DEF CheckRekey, EnvelopeDomains
  <2>3. ASSUME calm PROVE RekeyAlone'
    <3>1. CASE CoversHolders(rekeying.for)
        BY <1>8, <2>1, <2>3, <3>1 DEF CheckRekey, RekeyAlone, CoversHolders, HasEnvelope, Undisturbed
    <3>2. CASE ~CoversHolders(rekeying.for)
        BY <1>8, <3>2 DEF CheckRekey, RekeyAlone, NotRekeying
    <3> QED
        BY <3>1, <3>2
  <2>4. KeyIsCurrent => KeyIsCurrent'
      BY <1>8 DEF CheckRekey, KeyIsCurrent, HasEnvelope
  <2> QED
      BY <1>8, <2>2, <2>3, <2>4 DEF CheckRekey
<1>9. ASSUME ApplyRekey PROVE EnvelopesInv'
  <2>1. EnvelopeDomains'
      BY <1>9 DEF ApplyRekey, EnvelopeDomains
  <2>2. ASSUME calm PROVE KeyIsCurrent'
    <3>1. RekeyAlone
        BY <2>2
    <3>2. \A u \in Parties : HasEnvelope(u)' => envelope'[u].key = epoch'
        BY <1>9, <3>1 DEF ApplyRekey, RekeyAlone, HasEnvelope
    <3>3. \A u \in Parties : knowsKey'[u] \in {0, epoch'}
        BY <1>9, <2>2 DEF ApplyRekey
    <3>4. \A u \in Parties : request'[u].at # "save"
        BY <1>9, <3>1 DEF ApplyRekey, RekeyAlone, Undisturbed, NoRequest
    <3> QED
        BY <3>2, <3>3, <3>4 DEF KeyIsCurrent, HasEnvelope
  <2>3. RekeyAlone'
      BY <1>9 DEF ApplyRekey, RekeyAlone, NotRekeying
  <2> QED
      BY <1>9, <2>1, <2>2, <2>3 DEF ApplyRekey
<1>10. CASE EnvelopesNext
    BY <1>1, <1>2, <1>3, <1>4, <1>5, <1>6, <1>7, <1>8, <1>9, <1>10 DEF EnvelopesNext
<1>11. CASE UNCHANGED envelopeVars
    BY <1>11, <1>a DEF envelopeVars
<1> QED
    BY <1>10, <1>11

\* If the key is changed only while no other request runs, every envelope holds the key of
\* the document, at any time: the new envelopes of handle_e2ee_rekey cover the holders there
\* are, and no request that was begun before writes an old key after.
THEOREM EnvelopesCurrentCorrect == EnvelopesSpec => []EnvelopesCurrent
<1>1. EnvelopesInv => EnvelopesCurrent
    BY DEF EnvelopesInv, KeyIsCurrent, EnvelopesCurrent
<1> QED
    BY EnvelopesInitInv, EnvelopesStepInv, <1>1, PTL DEF EnvelopesSpec

-----------------------------------------------------------------------------
(* The types of Envelopes.                                                 *)

\* No key is of an epoch to come, no row beyond those made.
EnvelopesBound ==
    /\ epoch \in 1..MaxEpoch /\ mayRead \subseteq Partners
    /\ rekeying.at \in {"listed", "checked"} => epoch < MaxEpoch
    /\ lastRow <= MaxRows + epoch
    /\ \A u \in Parties :
        /\ envelope[u].id <= lastRow /\ envelope[u].key <= epoch /\ knowsKey[u] <= epoch
        /\ request[u].at = "save" => request[u].id <= lastRow /\ request[u].key <= epoch

LEMMA EnvelopesBounds == MaxEpoch \in Nat /\ MaxEpoch >= 1 /\ MaxRows \in Nat
BY EnvelopesAssumption

LEMMA EnvelopesBoundInit == EnvelopesInit => EnvelopesBound
BY EnvelopesBounds DEF EnvelopesInit, EnvelopesBound, NoEnvelope, NoRequest, NotRekeying

\* An envelope, or a request, of u is put in place, and the others' stay.
LEMMA EnvelopesBoundPut ==
    ASSUME EnvelopeDomains, EnvelopesBound, NEW u \in Parties, NEW h \in Parties,
           epoch' = epoch, rekeying' = rekeying, mayRead' \subseteq Partners,
           lastRow' \in Nat, lastRow' >= lastRow, lastRow' <= MaxRows + epoch,
           \A v \in Parties \ {h} : envelope'[v] = envelope[v],
           envelope'[h] = envelope[h]
             \/ (envelope'[h].id \in 0..lastRow' /\ envelope'[h].key \in 0..epoch),
           \A v \in Parties \ {u} : request'[v] = request[v] /\ knowsKey'[v] = knowsKey[v],
           knowsKey'[u] \in 0..epoch,
           request'[u] = request[u] \/ (request'[u].at = "save" =>
               request'[u].id \in 0..lastRow' /\ request'[u].key \in 0..epoch)
    PROVE  EnvelopesBound'
<1>1. /\ epoch \in Nat /\ lastRow \in Nat /\ MaxRows \in Nat /\ MaxEpoch \in Nat
      /\ \A v \in Parties : envelope[v].id \in Nat /\ envelope[v].key \in Nat /\ knowsKey[v] \in Nat
      /\ \A v \in Parties : request[v].at = "save" => request[v].id \in Nat /\ request[v].key \in Nat
  BY EnvelopesBounds DEF EnvelopeDomains, NoRequest
<1>2. ASSUME NEW v \in Parties
      PROVE  /\ envelope'[v].id <= lastRow' /\ envelope'[v].key <= epoch'
             /\ knowsKey'[v] <= epoch'
             /\ request'[v].at = "save" => request'[v].id <= lastRow' /\ request'[v].key <= epoch'
  <2>1. envelope'[v].id <= lastRow' /\ envelope'[v].key <= epoch'
    <3>1. CASE envelope'[v] = envelope[v]
      BY <1>1, <3>1 DEF EnvelopesBound
    <3>2. CASE v = h /\ envelope'[h].id \in 0..lastRow' /\ envelope'[h].key \in 0..epoch
      BY <1>1, <3>2
    <3> QED
      BY <3>1, <3>2
  <2>2. knowsKey'[v] <= epoch'
    BY <1>1 DEF EnvelopesBound
  <2>3. request'[v].at = "save" => request'[v].id <= lastRow' /\ request'[v].key <= epoch'
    <3>1. CASE request'[v] = request[v]
      BY <1>1, <3>1 DEF EnvelopesBound
    <3>2. CASE request'[v] # request[v]
      BY <1>1, <3>2
    <3> QED
      BY <3>1, <3>2
  <2> QED
    BY <2>1, <2>2, <2>3
<1> QED
  BY <1>1, <1>2 DEF EnvelopesBound

LEMMA EnvelopesBoundStep ==
    ASSUME EnvelopesInv, EnvelopesBound, [EnvelopesNext]_envelopeVars PROVE EnvelopesBound'
<1>1. /\ EnvelopeDomains /\ "owner" \in Parties /\ epoch \in Nat /\ lastRow \in Nat
      /\ MaxRows \in Nat /\ MaxEpoch \in Nat
  BY EnvelopesBounds DEF EnvelopesInv, EnvelopeDomains, Parties
<1>2. /\ lastRow <= MaxRows + epoch /\ mayRead \subseteq Partners
      /\ \A v \in Parties :
            /\ envelope[v].id \in 0..lastRow /\ envelope[v].key \in 0..epoch
            /\ knowsKey[v] \in 0..epoch
            /\ request[v].at = "save" => request[v].id \in 0..lastRow /\ request[v].key \in 0..epoch
  <2>1. \A v \in Parties : request[v].at = "save" => request[v].id \in Nat /\ request[v].key \in Nat
    BY <1>1 DEF EnvelopeDomains, NoRequest
  <2> QED
    BY <1>1, <2>1 DEF EnvelopeDomains, EnvelopesBound
<1>3. CASE UNCHANGED envelopeVars
  BY <1>3 DEF EnvelopesBound, envelopeVars
<1>4. ASSUME NEW u \in Partners, Share(u) \/ Revoke(u) PROVE EnvelopesBound'
  BY <1>4 DEF Share, Revoke, EnvelopesBound
<1>5. ASSUME NEW u \in Partners, DropContact(u) PROVE EnvelopesBound'
  <2>1. request'["owner"].at = "drop"
    BY <1>1, <1>5 DEF DropContact, EnvelopeDomains
  <2> QED
    BY <1>1, <1>2, <1>5, <2>1, EnvelopesBoundPut DEF DropContact, EnvelopeDomains
<1>6. ASSUME NEW u \in Parties, FetchKey(u) PROVE EnvelopesBound'
  <2>1. knowsKey'[u] = envelope[u].key
    BY <1>1, <1>6 DEF FetchKey, EnvelopeDomains
  <2> QED
    BY <1>1, <1>2, <1>6, <2>1, EnvelopesBoundPut DEF FetchKey, EnvelopeDomains
<1>7. ASSUME NEW u \in Parties, WriteKey(u) PROVE EnvelopesBound'
  <2> DEFINE r == request[u]
  <2>1. r.of \in Parties /\ r.id \in 0..lastRow /\ r.key \in 0..epoch
    BY <1>1, <1>2, <1>7 DEF WriteKey, EnvelopeDomains, NoRequest
  <2>2. envelope'[r.of] = envelope[r.of] \/ envelope'[r.of] = [id |-> r.id, key |-> r.key]
    BY <1>1, <1>7, <2>1 DEF WriteKey, EnvelopeDomains
  <2>3. \A v \in Parties \ {r.of} : envelope'[v] = envelope[v]
    BY <1>1, <1>7, <2>1 DEF WriteKey, EnvelopeDomains
  <2>4. request'[u] = NoRequest /\ \A v \in Parties \ {u} : request'[v] = request[v]
    BY <1>1, <1>7 DEF WriteKey, EnvelopeDomains
  <2>5. /\ epoch' = epoch /\ rekeying' = rekeying /\ mayRead' = mayRead /\ lastRow' = lastRow
        /\ knowsKey' = knowsKey
    BY <1>7 DEF WriteKey
  <2>6. request'[u].at # "save"
    BY <2>4 DEF NoRequest
  <2>7. \/ envelope'[r.of] = envelope[r.of]
        \/ envelope'[r.of].id \in 0..lastRow' /\ envelope'[r.of].key \in 0..epoch
    BY <2>1, <2>2, <2>5
  <2> QED
    BY <1>1, <1>2, <2>1, <2>3, <2>4, <2>5, <2>6, <2>7, EnvelopesBoundPut
<1>8. ASSUME NEW u \in Parties, NEW h \in Parties, SaveKey(u, h) \/ UpgradeKey(u, h)
      PROVE  EnvelopesBound'
  <2>1. CASE SaveKey(u, h) /\ ~HasEnvelope(h)
    <3>1. /\ lastRow < MaxRows /\ lastRow' = lastRow + 1 /\ request' = request
          /\ knowsKey' = knowsKey /\ epoch' = epoch /\ rekeying' = rekeying /\ mayRead' = mayRead
      BY <2>1 DEF SaveKey
    <3>2. /\ envelope'[h] = [id |-> lastRow', key |-> knowsKey[u]]
          /\ \A v \in Parties \ {h} : envelope'[v] = envelope[v]
      BY <1>1, <2>1 DEF SaveKey, EnvelopeDomains
    <3>3. envelope'[h].id \in 0..lastRow' /\ envelope'[h].key \in 0..epoch
      BY <1>1, <1>2, <3>1, <3>2
    <3>4. lastRow' \in Nat /\ lastRow' >= lastRow /\ lastRow' <= MaxRows + epoch
      BY <1>1, <3>1
    <3> QED
      BY <1>1, <1>2, <3>1, <3>2, <3>3, <3>4, EnvelopesBoundPut
  <2>2. CASE (SaveKey(u, h) /\ HasEnvelope(h)) \/ UpgradeKey(u, h)
    <3>1. /\ request'[u] = [at |-> "save", of |-> h, id |-> envelope[h].id, key |-> knowsKey[u]]
          /\ \A v \in Parties \ {u} : request'[v] = request[v]
      BY <1>1, <2>2 DEF SaveKey, UpgradeKey, EnvelopeDomains
    <3>2. /\ epoch' = epoch /\ rekeying' = rekeying /\ mayRead' = mayRead /\ lastRow' = lastRow
          /\ knowsKey' = knowsKey /\ envelope' = envelope
      BY <2>2 DEF SaveKey, UpgradeKey
    <3>3. request'[u].id \in 0..lastRow' /\ request'[u].key \in 0..epoch
      BY <1>2, <3>1, <3>2
    <3> QED
      BY <1>1, <1>2, <3>1, <3>2, <3>3, EnvelopesBoundPut
  <2> QED
    BY <1>8, <2>1, <2>2
<1>9. CASE DropEnvelope
  <2> DEFINE h == request["owner"].of
  <2>1. h \in Parties
    BY <1>1, <1>9 DEF DropEnvelope, EnvelopeDomains, NoRequest
  <2>2. /\ envelope'[h] = NoEnvelope /\ \A v \in Parties \ {h} : envelope'[v] = envelope[v]
        /\ request'["owner"] = NoRequest
        /\ \A v \in Parties \ {"owner"} : request'[v] = request[v]
    BY <1>1, <1>9, <2>1 DEF DropEnvelope, EnvelopeDomains
  <2>3. /\ epoch' = epoch /\ rekeying' = rekeying /\ mayRead' = mayRead /\ lastRow' = lastRow
        /\ knowsKey' = knowsKey
    BY <1>9 DEF DropEnvelope
  <2>4. request'["owner"].at # "save" /\ envelope'[h].id = 0 /\ envelope'[h].key = 0
    BY <2>2 DEF NoRequest, NoEnvelope
  <2>5. 0 \in 0..lastRow' /\ 0 \in 0..epoch
    BY <1>1, <2>3
  <2> HIDE DEF h
  <2> QED
    BY <1>1, <1>2, <2>1, <2>2, <2>3, <2>4, <2>5, EnvelopesBoundPut
<1>10. CASE ListHolders
  BY <1>1, <1>10 DEF ListHolders, EnvelopesBound
<1>11. CASE CheckRekey
  <2>1. /\ epoch < MaxEpoch
        /\ UNCHANGED <<calm, epoch, envelope, mayRead, knowsKey, request, lastRow>>
    BY <1>11 DEF CheckRekey, EnvelopesBound
  <2> QED
    BY <2>1 DEF EnvelopesBound
<1>12. CASE ApplyRekey
  <2>1. /\ epoch' = epoch + 1 /\ epoch < MaxEpoch /\ lastRow' \in {lastRow, lastRow + 1}
        /\ mayRead' = mayRead /\ request' = request /\ rekeying' = NotRekeying
    BY <1>12 DEF ApplyRekey, EnvelopesBound
  <2>2. ASSUME NEW v \in Parties
        PROVE  /\ envelope'[v].id <= lastRow' /\ envelope'[v].key <= epoch'
               /\ knowsKey'[v] <= epoch'
    <3>1. CASE v \notin rekeying.for
      <4>1. envelope'[v] = envelope[v]
        BY <1>12, <3>1 DEF ApplyRekey
      <4>2. knowsKey'[v] \in {epoch', 0, knowsKey[v]}
        BY <1>12 DEF ApplyRekey
      <4> QED
        BY <1>1, <1>2, <2>1, <4>1, <4>2
    <3>2. CASE v \in rekeying.for
      <4>1. /\ envelope'[v].key = epoch'
            /\ envelope'[v].id = IF HasEnvelope(v) THEN envelope[v].id ELSE lastRow + 1
        BY <1>12, <3>2 DEF ApplyRekey
      <4>2. ~HasEnvelope(v) => lastRow' = lastRow + 1
        BY <1>12, <3>2 DEF ApplyRekey
      <4>3. knowsKey'[v] \in {epoch', 0, knowsKey[v]}
        BY <1>12 DEF ApplyRekey
      <4> QED
        BY <1>1, <1>2, <2>1, <4>1, <4>2, <4>3
    <3> QED
      BY <3>1, <3>2
  <2>3. \A v \in Parties : request'[v].at = "save" =>
            request'[v].id <= lastRow' /\ request'[v].key <= epoch'
    BY <1>1, <1>2, <2>1
  <2>4. epoch' \in 1..MaxEpoch /\ lastRow' <= MaxRows + epoch'
    BY <1>1, <1>2, <2>1
  <2> QED
    BY <1>2, <2>1, <2>2, <2>3, <2>4 DEF EnvelopesBound, NotRekeying
<1>13. CASE EnvelopesNext
  BY <1>4, <1>5, <1>6, <1>7, <1>8, <1>9, <1>10, <1>11, <1>12, <1>13 DEF EnvelopesNext
<1> QED
  BY <1>3, <1>13

\* No envelope holds a key of an epoch to come, nobody but those named has a right, and rows
\* are no more than were created (save_document_encryption_key, handle_e2ee_rekey).
THEOREM EnvelopesTypeCorrect == EnvelopesSpec => []EnvelopesTypeOK
<1>1. EnvelopesInv /\ EnvelopesBound => EnvelopesTypeOK
  <2> SUFFICES ASSUME EnvelopesInv, EnvelopesBound PROVE EnvelopesTypeOK
    OBVIOUS
  <2>1. /\ epoch \in Nat /\ lastRow \in Nat /\ MaxRows \in Nat /\ MaxEpoch \in Nat
        /\ epoch <= MaxEpoch /\ lastRow <= MaxRows + epoch
    BY EnvelopesBounds DEF EnvelopesInv, EnvelopeDomains, EnvelopesBound
  <2>2. \A u \in Parties : /\ envelope[u] \in [id : 0..(MaxRows + MaxEpoch), key : 0..MaxEpoch]
                           /\ knowsKey[u] \in 0..MaxEpoch
    <3> TAKE u \in Parties
    <3>1. /\ envelope[u] \in [id : Nat, key : Nat] /\ knowsKey[u] \in Nat
          /\ envelope[u].id <= lastRow /\ envelope[u].key <= epoch /\ knowsKey[u] <= epoch
      BY DEF EnvelopesInv, EnvelopeDomains, EnvelopesBound
    <3> QED
      BY <2>1, <3>1
  <2>3. rekeying.at \in {"none", "listed", "checked"}
    BY DEF EnvelopesInv, EnvelopeDomains, NotRekeying
  <2> QED
    BY <2>2, <2>3 DEF EnvelopesInv, EnvelopeDomains, EnvelopesBound, EnvelopesTypeOK
<1> QED
  BY <1>1, EnvelopesBoundInit, EnvelopesBoundStep, EnvelopesInitInv, EnvelopesStepInv, PTL
     DEF EnvelopesSpec

-----------------------------------------------------------------------------
(* The bibliography, and the copies the devices have of it.                *)

\* A set of naturals has a least element.
LEMMA LessOn == \E R : IsWellFoundedOn(R, Nat) /\ \A x, y \in Nat : x < y => <<x, y>> \in R
<1>1. \A x, y \in Nat : x < y => <<x, y>> \in OpToRel(<, Nat)
  BY DEF OpToRel
<1> QED
  BY <1>1, NatLessThanWellFounded, Zenon
LEMMA Least == ASSUME NEW T, T \subseteq Nat, T # {} PROVE \E x \in T : \A y \in T : x <= y
<1>1. PICK R : IsWellFoundedOn(R, Nat) /\ \A x, y \in Nat : x < y => <<x, y>> \in R
  BY LessOn
<1>2. IsWellFoundedOn(R, Nat)
  BY <1>1
<1>3. \E x \in T : \A y \in T : ~ (<<y, x>> \in R)
  BY <1>2, WFMin, Zenon
<1>4. PICK x \in T : \A y \in T : ~ (<<y, x>> \in R)
  BY <1>3
<1>5. ASSUME NEW y \in T PROVE x <= y
  <2>1. x \in Nat /\ y \in Nat
    OBVIOUS
  <2>2. ~(y < x)
    BY <1>1, <1>4, <2>1
  <2> QED
    BY <2>1, <2>2
<1> QED
  BY <1>4, <1>5

LEMMA RangesFinite == \A k \in Nat : IsFiniteSet(1..k)
<1>1. ASSUME NEW k \in Int PROVE IsFiniteSet(1..k)
  <2>1. 1 \in Int
    OBVIOUS
  <2> QED
    BY <2>1, FS_Interval, Zenon
<1> QED
  BY <1>1

\* Domains and records, as far as the proof needs them.
BibliographyTyped ==
    /\ second \in Nat /\ second >= 1 /\ numbers.entry \in Nat
    /\ numbers = [entry |-> numbers.entry, category |-> numbers.category]
    /\ DOMAIN entry \subseteq 1..numbers.entry
    /\ \A i \in DOMAIN entry : entry[i].at \in 1..second
    /\ copy = [m \in Machines |-> copy[m]] /\ chore = [m \in Machines |-> chore[m]]
    /\ \A m \in Machines :
        /\ copy[m].modified \in 0..second
        /\ chore[m].at = "list" => chore[m].modified \in 0..second
        /\ chore[m].at = "write" => chore[m].entry \in 1..numbers.entry

\* What SeemsBehind says, by entries.
Lags(m) ==
    \/ \E i \in DOMAIN entry : entry[i].at > copy[m].modified
    \/ copy[m].count > Cardinality(DOMAIN entry)

\* A copy that was read while nothing changed: it has what it was told it has, and whatever
\* is still as old as it was told.
CopyFollows(m) ==
    /\ copy[m].entries = [i \in DOMAIN copy[m].entries |-> copy[m].entries[i]]
    /\ DOMAIN copy[m].entries \subseteq 1..numbers.entry
    /\ copy[m].count = Cardinality(DOMAIN copy[m].entries)
    /\ \A i \in DOMAIN entry :
          \/ entry[i].at > copy[m].modified
          \/ i \in DOMAIN copy[m].entries /\ copy[m].entries[i] = entry[i].body

\* A device that is behind is sent the entries as they were counted, ...
SentInFull(m) ==
    m \notin loose /\ chore[m].at = "list" =>
        chore[m].count = Cardinality(DOMAIN entry) /\ Lags(m)

\* ... unless something changes meanwhile.
BibliographyInv ==
    /\ BibliographyTyped
    /\ \A m \in Machines :
        /\ SentInFull(m)
        /\ m \notin loose /\ chore[m].at # "list" => CopyFollows(m)
    /\ given \ leftOut \subseteq category

LEMMA LatestIs == ASSUME BibliographyTyped
    PROVE  /\ LastModified \in 0..second
           /\ \A i \in DOMAIN entry : entry[i].at <= LastModified
           /\ LastModified = 0 \/ \E i \in DOMAIN entry : entry[i].at = LastModified
<1> DEFINE Good(t) == /\ \A i \in DOMAIN entry : entry[i].at <= t
                      /\ t = 0 \/ \E i \in DOMAIN entry : entry[i].at = t
           Ago == {u \in 0..second : \E i \in DOMAIN entry : u = second - entry[i].at}
<1>1. second \in Nat /\ \A i \in DOMAIN entry : entry[i].at \in 1..second
  BY DEF BibliographyTyped
<1>2. \E t \in 0..second : Good(t)
  <2>1. CASE DOMAIN entry = {}
    <3>1. 0 \in 0..second /\ Good(0)
      BY <1>1, <2>1
    <3> QED
      BY <3>1
  <2>2. CASE DOMAIN entry # {}
    <3>1. Ago \subseteq Nat
      OBVIOUS
    <3>2. \A i \in DOMAIN entry : second - entry[i].at \in Ago
      BY <1>1
    <3>3. Ago # {}
      BY <2>2, <3>2
    <3>4. PICK u \in Ago : \A v \in Ago : u <= v
      BY <3>1, <3>3, Least
    <3>5. PICK i \in DOMAIN entry : u = second - entry[i].at
      BY <3>4
    <3>6. entry[i].at \in 1..second
      BY <1>1
    <3>7. ASSUME NEW j \in DOMAIN entry PROVE entry[j].at <= entry[i].at
      BY <1>1, <3>2, <3>4, <3>5, <3>6
    <3> QED
      BY <1>1, <3>6, <3>7
  <2> QED
    BY <2>1, <2>2
<1>3. LastModified = CHOOSE t \in 0..second : Good(t)
  BY DEF LastModified
<1>4. LastModified \in 0..second /\ Good(LastModified)
  <2> HIDE DEF Good
  <2> QED
    BY <1>2, <1>3, Zenon
<1> QED
  BY <1>4

LEMMA BehindIs == ASSUME BibliographyTyped, NEW m \in Machines
    PROVE  SeemsBehind(m) <=> Lags(m)
<1>1. copy[m].modified \in 0..second /\ second \in Nat
  BY DEF BibliographyTyped
<1>2. \A i \in DOMAIN entry : entry[i].at \in 1..second
  BY DEF BibliographyTyped
<1>3. copy[m].modified < LastModified <=> \E i \in DOMAIN entry : entry[i].at > copy[m].modified
  BY <1>1, <1>2, LatestIs
<1> QED
  BY <1>3 DEF SeemsBehind, Lags

LEMMA BibliographyInitial == ASSUME BibliographyInit PROVE BibliographyInv
<1>1. DOMAIN entry = {} /\ second = 1 /\ numbers.entry = 0
  BY DEF BibliographyInit
<1>2. numbers = [entry |-> numbers.entry, category |-> numbers.category]
  BY DEF BibliographyInit
<1>3. chore = [m \in Machines |-> chore[m]] /\ copy = [m \in Machines |-> copy[m]]
  BY DEF BibliographyInit
<1>4. \A m \in Machines : chore[m].at = "none" /\ copy[m].modified = 0
  BY DEF BibliographyInit, NoChore
<1>5. BibliographyTyped
  BY <1>1, <1>2, <1>3, <1>4 DEF BibliographyTyped
<1>6. ASSUME NEW m \in Machines PROVE CopyFollows(m)
  <2> DEFINE e == copy[m].entries
  <2>1. e = <<>> /\ copy[m].count = 0
    BY DEF BibliographyInit
  <2>2. DOMAIN e = {} /\ e = [i \in DOMAIN e |-> e[i]]
    BY <2>1
  <2>3. Cardinality(DOMAIN e) = 0
    BY <2>2, FS_EmptySet
  <2> QED
    BY <1>1, <2>1, <2>2, <2>3 DEF CopyFollows
<1> QED
  BY <1>4, <1>5, <1>6 DEF BibliographyInv, SentInFull, BibliographyInit

\* What stays true of a device whose copy and request stay as they are.
LEMMA FollowsStays == ASSUME NEW m \in Machines, CopyFollows(m), UNCHANGED copy[m],
                             numbers.entry \in Nat, numbers'.entry \in Nat,
                             numbers'.entry >= numbers.entry,
                             \A i \in DOMAIN entry' :
                                \/ i \in DOMAIN entry /\ entry'[i] = entry[i]
                                \/ entry'[i].at > copy[m].modified
                      PROVE  CopyFollows(m)'
  BY DEF CopyFollows

LEMMA BibTick == ASSUME BibliographyInv, Tick PROVE BibliographyInv'
<1>1. second' = second + 1 /\ UNCHANGED <<entry, category, numbers, copy, shelf, chore, loose, given, leftOut>>
  BY DEF Tick
<1>2. BibliographyTyped'
  BY <1>1 DEF BibliographyTyped, BibliographyInv
<1>3. ASSUME NEW m \in Machines PROVE SentInFull(m)' /\ (m \notin loose /\ chore[m].at # "list" => CopyFollows(m))'
  BY <1>1 DEF BibliographyInv, SentInFull, Lags, CopyFollows
<1> QED
  BY <1>1, <1>2, <1>3 DEF BibliographyInv

\* The rest of a request that reads or writes no entry.
LEMMA BibAside == ASSUME BibliographyInv, NEW m \in Machines, NEW next,
                         chore' = [chore EXCEPT ![m] = next], next.at # "list", chore[m].at # "list",
                         next.at = "write" => next.entry \in 1..numbers.entry,
                         numbers'.entry = numbers.entry,
                         numbers' = [entry |-> numbers'.entry, category |-> numbers'.category],
                         UNCHANGED <<entry, second, copy, loose>>,
                         (given \ leftOut \subseteq category)'
                  PROVE  BibliographyInv'
<1>1. numbers'.entry = numbers.entry /\ numbers'.entry \in Nat
  BY DEF BibliographyInv, BibliographyTyped
<1>2. \A n \in Machines : chore'[n] = IF n = m THEN next ELSE chore[n]
  BY DEF BibliographyInv, BibliographyTyped
<1>3. numbers' = [entry |-> numbers'.entry, category |-> numbers'.category]
  BY DEF BibliographyInv, BibliographyTyped
<1>4. chore' = [n \in Machines |-> chore'[n]]
  BY DEF BibliographyInv, BibliographyTyped
<1>5. BibliographyTyped'
  BY <1>1, <1>2, <1>3, <1>4 DEF BibliographyTyped, BibliographyInv
<1>6. ASSUME NEW n \in Machines PROVE SentInFull(n)' /\ (n \notin loose /\ chore[n].at # "list" => CopyFollows(n))'
  BY <1>1, <1>2 DEF BibliographyInv, SentInFull, Lags, CopyFollows
<1> QED
  BY <1>5, <1>6 DEF BibliographyInv

LEMMA BibLists == ASSUME BibliographyInv, NEW m \in Machines, BibList(m) PROVE BibliographyInv'
<1> DEFINE next == [at |-> "list", modified |-> LastModified, count |-> Cardinality(DOMAIN entry)]
<1>0. next.at = "list" /\ next.modified = LastModified /\ next.count = Cardinality(DOMAIN entry)
  OBVIOUS
<1>1. /\ chore' = [chore EXCEPT ![m] = next] /\ loose' = loose \ {m}
      /\ UNCHANGED <<entry, category, numbers, second, copy, given, leftOut>>
  BY DEF BibList, Then
<1> HIDE DEF next
<1>2. \A n \in Machines : chore'[n] = IF n = m THEN next ELSE chore[n]
  BY <1>1 DEF BibliographyInv, BibliographyTyped
<1>3. chore' = [n \in Machines |-> chore'[n]]
  BY <1>1 DEF BibliographyInv, BibliographyTyped
<1>4. BibliographyTyped'
  BY <1>0, <1>1, <1>2, <1>3, LatestIs DEF BibliographyTyped, BibliographyInv
<1>5. Lags(m)
  BY BehindIs DEF BibList, BibliographyInv
<1>6. ASSUME NEW n \in Machines PROVE SentInFull(n)' /\ (n \notin loose /\ chore[n].at # "list" => CopyFollows(n))'
  <2>1. CASE n = m
    BY <1>0, <1>1, <1>2, <1>5, <2>1 DEF SentInFull, Lags
  <2>2. CASE n # m
    BY <1>1, <1>2, <2>2 DEF BibliographyInv, SentInFull, Lags, CopyFollows
  <2> QED
    BY <2>1, <2>2
<1> QED
  BY <1>1, <1>4, <1>6 DEF BibliographyInv

LEMMA BibSends == ASSUME BibliographyInv, NEW m \in Machines, SendEntries(m) PROVE BibliographyInv'
<1> DEFINE sent == [entries |-> Said, modified |-> chore[m].modified, count |-> chore[m].count]
<1>0. sent.entries = Said /\ sent.modified = chore[m].modified /\ sent.count = chore[m].count
  OBVIOUS
<1>1. /\ chore[m].at = "list" /\ copy' = [copy EXCEPT ![m] = sent]
      /\ chore' = [chore EXCEPT ![m] = NoChore] /\ given' = given \cup category
      /\ UNCHANGED <<entry, category, numbers, second, loose, leftOut>>
  BY DEF SendEntries, Then, Done
<1> HIDE DEF sent
<1>2. \A n \in Machines : /\ chore'[n] = IF n = m THEN NoChore ELSE chore[n]
                          /\ copy'[n] = IF n = m THEN sent ELSE copy[n]
  BY <1>1 DEF BibliographyInv, BibliographyTyped
<1>3. chore' = [n \in Machines |-> chore'[n]] /\ copy' = [n \in Machines |-> copy'[n]]
  BY <1>1 DEF BibliographyInv, BibliographyTyped
<1>4. NoChore.at = "none"
  BY DEF NoChore
<1>5. sent.modified \in 0..second
  BY <1>0, <1>1 DEF BibliographyInv, BibliographyTyped
<1>6. BibliographyTyped'
  BY <1>1, <1>2, <1>3, <1>4, <1>5 DEF BibliographyTyped, BibliographyInv
<1>7. ASSUME NEW n \in Machines PROVE SentInFull(n)' /\ (n \notin loose /\ chore[n].at # "list" => CopyFollows(n))'
  <2>1. CASE n = m
    <3>1. ASSUME m \notin loose PROVE CopyFollows(m)'
      <4>1. chore[m].count = Cardinality(DOMAIN entry)
        BY <1>1, <3>1 DEF BibliographyInv, SentInFull
      <4>2. /\ DOMAIN Said = DOMAIN entry /\ \A i \in DOMAIN entry : Said[i] = entry[i].body
            /\ Said = [i \in DOMAIN Said |-> Said[i]]
        BY DEF Said
      <4>3. copy'[m].entries = Said /\ copy'[m].count = Cardinality(DOMAIN entry)
        BY <1>0, <1>2, <4>1
      <4>4. DOMAIN entry \subseteq 1..numbers.entry
        BY DEF BibliographyInv, BibliographyTyped
      <4> QED
        BY <1>1, <4>2, <4>3, <4>4 DEF CopyFollows
    <3> QED
      BY <1>1, <1>2, <1>4, <2>1, <3>1 DEF SentInFull
  <2>2. CASE n # m
    BY <1>1, <1>2, <2>2 DEF BibliographyInv, SentInFull, Lags, CopyFollows
  <2> QED
    BY <2>1, <2>2
<1> QED
  BY <1>1, <1>6, <1>7 DEF BibliographyInv

LEMMA BibSendsCategories == ASSUME BibliographyInv, NEW m \in Machines, SendCategories(m)
                            PROVE  BibliographyInv'
<1>1. /\ given' = given \cup category
      /\ UNCHANGED <<entry, category, numbers, second, copy, chore, loose, leftOut>>
  BY DEF SendCategories
<1>2. BibliographyTyped'
  BY <1>1 DEF BibliographyTyped, BibliographyInv
<1>3. ASSUME NEW n \in Machines PROVE SentInFull(n)' /\ (n \notin loose /\ chore[n].at # "list" => CopyFollows(n))'
  BY <1>1 DEF BibliographyInv, SentInFull, Lags, CopyFollows
<1> QED
  BY <1>1, <1>2, <1>3 DEF BibliographyInv

\* An entry i is written, by the request of m.
LEMMA BibWrites == ASSUME BibliographyInv, NEW m \in Machines, NEW i, NEW w, w.at = second,
                          i \in 1..numbers'.entry, numbers'.entry \in Nat, numbers'.entry >= numbers.entry,
                          numbers' = [entry |-> numbers'.entry, category |-> numbers'.category],
                          entry' = [j \in DOMAIN entry \cup {i} |-> IF j = i THEN w ELSE entry[j]],
                          chore[m].at # "list", EntriesChange({i}), Done(m),
                          UNCHANGED <<second, copy, categories>>
                   PROVE  BibliographyInv'
<1>1. /\ chore' = [chore EXCEPT ![m] = NoChore] /\ NoChore.at = "none"
      /\ UNCHANGED <<second, copy, category, given, leftOut>>
  BY DEF Done, Then, NoChore, categories
<1>2. \A n \in Machines : chore'[n] = IF n = m THEN NoChore ELSE chore[n]
  BY <1>1 DEF BibliographyInv, BibliographyTyped
<1>3. chore' = [n \in Machines |-> chore'[n]]
  BY <1>1 DEF BibliographyInv, BibliographyTyped
<1>4. /\ \A j : j \in DOMAIN entry' <=> j \in DOMAIN entry \/ j = i
      /\ \A j \in DOMAIN entry' : entry'[j] = IF j = i THEN w ELSE entry[j]
  OBVIOUS
<1>5. /\ second \in Nat /\ second >= 1 /\ numbers.entry \in Nat
      /\ numbers' = [entry |-> numbers'.entry, category |-> numbers'.category]
  BY DEF BibliographyInv, BibliographyTyped
<1>6. \A j \in DOMAIN entry' : j \in 1..numbers'.entry /\ entry'[j].at \in 1..second
  BY <1>4, <1>5 DEF BibliographyInv, BibliographyTyped
<1>7. \A n \in Machines : chore'[n].at = "write" => chore'[n].entry \in 1..numbers'.entry
  BY <1>1, <1>2, <1>5 DEF BibliographyInv, BibliographyTyped
<1>8. BibliographyTyped'
  BY <1>1, <1>2, <1>3, <1>5, <1>6, <1>7 DEF BibliographyTyped, BibliographyInv
<1>9. ASSUME NEW n \in Machines PROVE SentInFull(n)' /\ (n \notin loose /\ chore[n].at # "list" => CopyFollows(n))'
  <2>1. n \notin loose' => n \notin loose /\ chore[n].at # "list" /\ copy[n].modified # second
    BY DEF EntriesChange
  <2>2. chore'[n].at # "list" \/ n \in loose'
    BY <1>1, <1>2, <2>1
  <2>3. ASSUME n \notin loose' PROVE CopyFollows(n)'
    <3>1. CopyFollows(n) /\ copy[n].modified \in 0..second /\ copy[n].modified # second
      BY <2>1, <2>3 DEF BibliographyInv, BibliographyTyped
    <3>2. \A j \in DOMAIN entry' : \/ j \in DOMAIN entry /\ entry'[j] = entry[j]
                                   \/ entry'[j].at > copy[n].modified
      BY <1>4, <1>5, <3>1
    <3> QED
      BY <1>1, <1>5, <3>1, <3>2, FollowsStays
  <2> QED
    BY <2>2, <2>3 DEF SentInFull
<1> QED
  BY <1>1, <1>8, <1>9 DEF BibliographyInv

LEMMA BibDeletes == ASSUME BibliographyInv, NEW m \in Machines, DeleteEntry(m) PROVE BibliographyInv'
<1>1. /\ chore' = [chore EXCEPT ![m] = NoChore] /\ NoChore.at = "none" /\ chore[m] = NoChore
      /\ UNCHANGED <<numbers, second, copy, category, given, leftOut>> /\ EntriesChange({})
  BY DEF DeleteEntry, Start, Rests, NoChore, categories
<1>2. \A n \in Machines : chore'[n] = chore[n]
  BY <1>1 DEF BibliographyInv, BibliographyTyped
<1>3. chore' = [n \in Machines |-> chore'[n]]
  BY <1>1 DEF BibliographyInv, BibliographyTyped
<1>4. \A j \in DOMAIN entry' : j \in DOMAIN entry /\ entry'[j] = entry[j]
  BY DEF DeleteEntry
<1>5. BibliographyTyped'
  BY <1>1, <1>2, <1>3, <1>4 DEF BibliographyTyped, BibliographyInv
<1>6. ASSUME NEW n \in Machines PROVE SentInFull(n)' /\ (n \notin loose /\ chore[n].at # "list" => CopyFollows(n))'
  <2>1. n \notin loose' => n \notin loose /\ chore[n].at # "list"
    BY <1>1 DEF EntriesChange
  <2>2. ASSUME n \notin loose' PROVE CopyFollows(n)'
    <3>1. CopyFollows(n) /\ numbers.entry \in Nat
      BY <2>1, <2>2 DEF BibliographyInv, BibliographyTyped
    <3> QED
      BY <1>1, <1>4, <3>1, FollowsStays
  <2> QED
    BY <1>2, <2>1, <2>2 DEF SentInFull
<1> QED
  BY <1>1, <1>5, <1>6 DEF BibliographyInv

LEMMA BibliographyStepInv == ASSUME BibliographyInv, [BibliographyNext]_bibliographyVars
                          PROVE  BibliographyInv'
<1>0. /\ BibliographyTyped /\ given \ leftOut \subseteq category /\ NoChore.at = "none"
      /\ numbers.entry \in Nat /\ numbers = [entry |-> numbers.entry, category |-> numbers.category]
  BY DEF BibliographyInv, BibliographyTyped, NoChore
<1>1. CASE Tick
  BY <1>1, BibTick
<1>2. ASSUME NEW m \in Machines, BibList(m) \/ SendEntries(m) \/ SendCategories(m) \/ DeleteEntry(m)
      PROVE  BibliographyInv'
  BY <1>2, BibLists, BibSends, BibSendsCategories, BibDeletes
<1>3. ASSUME NEW m \in Machines, SaveEntry(m) PROVE BibliographyInv'
  <2>1. PICK i \in DOMAIN entry, b \in Bodies : Start(m, [at |-> "write", entry |-> i, body |-> b])
    BY <1>3 DEF SaveEntry
  <2> DEFINE next == [at |-> "write", entry |-> i, body |-> b]
  <2>2. next.at = "write" /\ next.entry \in 1..numbers.entry
    BY <1>0 DEF BibliographyTyped
  <2>3. /\ chore' = [chore EXCEPT ![m] = next] /\ chore[m] = NoChore
        /\ UNCHANGED <<entry, numbers, second, copy, loose, category, given, leftOut>>
    BY <1>3, <2>1 DEF SaveEntry, Start, Rests, categories
  <2> HIDE DEF next
  <2> QED
    BY <1>0, <2>2, <2>3, BibAside
<1>4. ASSUME NEW m \in Machines, WriteEntry(m) PROVE BibliographyInv'
  <2> DEFINE w == [body |-> chore[m].body, at |-> second]
             i == chore[m].entry
  <2>1. w.at = second /\ i \in 1..numbers.entry /\ chore[m].at = "write"
    BY <1>0, <1>4 DEF WriteEntry, BibliographyTyped
  <2>2. /\ entry' = [j \in DOMAIN entry \cup {i} |-> IF j = i THEN w ELSE entry[j]]
        /\ EntriesChange({i}) /\ Done(m) /\ UNCHANGED <<numbers, second, copy, categories>>
    BY <1>4 DEF WriteEntry
  <2>3. numbers' = [entry |-> numbers'.entry, category |-> numbers'.category] /\ numbers' = numbers
    BY <1>0, <2>2 DEF BibliographyTyped
  <2> HIDE DEF w, i
  <2> QED
    BY <1>0, <2>1, <2>2, <2>3, BibWrites
<1>5. ASSUME NEW m \in Machines, NewEntry(m) PROVE BibliographyInv'
  <2>1. PICK b \in Bodies :
           Start(m, IF \E i \in DOMAIN entry : entry[i].body = b THEN NoChore
                    ELSE [at |-> "insert", body |-> b])
    BY <1>5 DEF NewEntry
  <2> DEFINE next == IF \E i \in DOMAIN entry : entry[i].body = b THEN NoChore
                     ELSE [at |-> "insert", body |-> b]
  <2>2. next.at \in {"none", "insert"}
    BY <1>0
  <2>3. /\ chore' = [chore EXCEPT ![m] = next] /\ chore[m] = NoChore
        /\ UNCHANGED <<entry, numbers, second, copy, loose, category, given, leftOut>>
    BY <1>5, <2>1 DEF NewEntry, Start, Rests, categories
  <2> HIDE DEF next
  <2> QED
    BY <1>0, <2>2, <2>3, BibAside
<1>6. ASSUME NEW m \in Machines, InsertEntry(m) PROVE BibliographyInv'
  <2> DEFINE w == [body |-> chore[m].body, at |-> second]
             i == numbers.entry + 1
  <2>1. w.at = second /\ chore[m].at = "insert"
    BY <1>6 DEF InsertEntry
  <2>2. /\ entry' = [j \in DOMAIN entry \cup {i} |-> IF j = i THEN w ELSE entry[j]]
        /\ numbers' = [numbers EXCEPT !.entry = i]
        /\ EntriesChange({i}) /\ Done(m) /\ UNCHANGED <<second, copy, categories>>
    BY <1>6 DEF InsertEntry
  <2>3. numbers'.entry = i /\ numbers' = [entry |-> numbers'.entry, category |-> numbers'.category]
    BY <1>0, <2>2 DEF BibliographyTyped
  <2>4. i \in Nat /\ i >= numbers.entry /\ i \in 1..numbers'.entry
    BY <1>0, <2>3
  <2> HIDE DEF w, i
  <2> QED
    BY <1>0, <2>1, <2>2, <2>3, <2>4, BibWrites
<1>7. ASSUME NEW m \in Machines, SaveCategories(m) PROVE BibliographyInv'
  <2>1. PICK keep \in SUBSET shelf[m], new \in 0..1 :
           /\ Start(m, [at |-> "titles", keep |-> keep, new |-> new])
           /\ category' = category \cap keep /\ leftOut' = leftOut \cup (category \ keep)
    BY <1>7 DEF SaveCategories
  <2> DEFINE next == [at |-> "titles", keep |-> keep, new |-> new]
  <2>2. next.at = "titles"
    OBVIOUS
  <2>3. /\ chore' = [chore EXCEPT ![m] = next] /\ chore[m] = NoChore
        /\ UNCHANGED <<entry, numbers, second, copy, loose, given>>
    BY <1>7, <2>1 DEF SaveCategories, Start, Rests
  <2>4. (given \ leftOut \subseteq category)'
    BY <1>0, <2>1, <2>3
  <2> HIDE DEF next
  <2> QED
    BY <1>0, <2>2, <2>3, <2>4, BibAside
<1>8. ASSUME NEW m \in Machines, SaveTitles(m) PROVE BibliographyInv'
  <2>1. PICK fresh : category' = category \cup fresh /\ given' = given \cup fresh
    BY <1>8 DEF SaveTitles
  <2>2. /\ chore' = [chore EXCEPT ![m] = NoChore] /\ chore[m].at = "titles"
        /\ UNCHANGED <<entry, second, copy, loose, leftOut>>
    BY <1>8 DEF SaveTitles, Done, Then
  <2>3. numbers' = [entry |-> numbers'.entry, category |-> numbers'.category] /\ numbers'.entry = numbers.entry
    BY <1>0, <1>8 DEF SaveTitles
  <2>4. (given \ leftOut \subseteq category)'
    BY <1>0, <2>1, <2>2
  <2> QED
    BY <1>0, <2>2, <2>3, <2>4, BibAside
<1>9. ASSUME NEW m \in Machines, DeleteCategories(m) PROVE BibliographyInv'
  <2>1. PICK cs : category' = category \ cs /\ leftOut' = leftOut \cup cs
    BY <1>9 DEF DeleteCategories
  <2>2. /\ chore' = [chore EXCEPT ![m] = NoChore] /\ chore[m] = NoChore
        /\ UNCHANGED <<entry, numbers, second, copy, loose, given>>
    BY <1>9 DEF DeleteCategories, Start, Rests
  <2>3. (given \ leftOut \subseteq category)'
    BY <1>0, <2>1, <2>2
  <2> QED
    BY <1>0, <2>2, <2>3, BibAside
<1>10. CASE UNCHANGED bibliographyVars
  <2>1. UNCHANGED <<entry, category, numbers, second, copy, chore, loose, given, leftOut>>
    BY <1>10 DEF bibliographyVars
  <2>2. BibliographyTyped'
    BY <1>0, <2>1 DEF BibliographyTyped
  <2>3. ASSUME NEW n \in Machines PROVE SentInFull(n)' /\ (n \notin loose /\ chore[n].at # "list" => CopyFollows(n))'
    BY <2>1 DEF BibliographyInv, SentInFull, Lags, CopyFollows
  <2> QED
    BY <1>0, <2>1, <2>2, <2>3 DEF BibliographyInv
<1> QED
  BY <1>1, <1>2, <1>3, <1>4, <1>5, <1>6, <1>7, <1>8, <1>9, <1>10 DEF BibliographyNext

LEMMA UpToDateHasAll == ASSUME BibliographyInv, NEW m \in Machines, ~SeemsBehind(m), m \notin loose
                        PROVE  copy[m].entries = Said
<1> DEFINE e == copy[m].entries
<1>1. ~Lags(m)
  BY BehindIs DEF BibliographyInv
<1>2. CopyFollows(m)
  BY <1>1 DEF BibliographyInv, SentInFull
<1>3. copy[m].modified \in 0..second /\ \A i \in DOMAIN entry : entry[i].at \in 1..second
  BY DEF BibliographyInv, BibliographyTyped
<1>4. \A i \in DOMAIN entry : i \in DOMAIN e /\ e[i] = entry[i].body
  BY <1>1, <1>2, <1>3 DEF Lags, CopyFollows
<1>5. IsFiniteSet(DOMAIN e) /\ numbers.entry \in Nat
  <2>1. numbers.entry \in Nat /\ DOMAIN e \subseteq 1..numbers.entry
    BY <1>2 DEF CopyFollows, BibliographyInv, BibliographyTyped
  <2> HIDE DEF e
  <2>3. IsFiniteSet(1..numbers.entry)
    BY <2>1, RangesFinite, Zenon
  <2> QED
    BY <2>1, <2>3, FS_Subset
<1>6. DOMAIN entry \subseteq DOMAIN e
  BY <1>4
<1>7. IsFiniteSet(DOMAIN entry) /\ Cardinality(DOMAIN entry) \in Nat /\ Cardinality(DOMAIN e) \in Nat
  BY <1>5, <1>6, FS_Subset, FS_CardinalityType
<1>8. Cardinality(DOMAIN e) <= Cardinality(DOMAIN entry)
  BY <1>1, <1>2, <1>7 DEF Lags, CopyFollows
<1>9. DOMAIN entry = DOMAIN e
  BY <1>5, <1>6, <1>7, <1>8, FS_Subset
<1>10. e = [i \in DOMAIN e |-> e[i]]
  BY <1>2 DEF CopyFollows
<1> QED
  BY <1>4, <1>9, <1>10 DEF Said

\* For any number of devices and entries: a device that does not seem to be behind has what its
\* user saved, unless an entry changed in the second it was told of, after its copy was read, or
\* while it was read; and a category that a device was told of goes only if a request leaves it
\* out.
THEOREM BibliographyFollowsCorrect == BibliographySpec => []BibliographyFollows
<1>1. BibliographyInit => BibliographyInv
  BY BibliographyInitial
<1>2. BibliographyInv /\ [BibliographyNext]_bibliographyVars => BibliographyInv'
  BY BibliographyStepInv
<1>3. BibliographyInv => BibliographyFollows
  BY UpToDateHasAll DEF BibliographyInv, BibliographyFollows
<1> QED
  BY <1>1, <1>2, <1>3, PTL DEF BibliographySpec

-----------------------------------------------------------------------------
(* The types of Bibliography.                                              *)

\* What of the types the proof above does not need.
BibliographyBound ==
    /\ numbers.entry <= MaxEntries /\ second <= MaxSeconds /\ chores \in 0..MaxChores
    /\ loose \subseteq Machines
    /\ \A i \in DOMAIN entry : entry[i].body \in Bodies
    /\ numbers.category \in Nat /\ category \cup given \cup leftOut \subseteq 1..numbers.category
    /\ shelf = [m \in Machines |-> shelf[m]]
    /\ \A m \in Machines :
        /\ shelf[m] \subseteq 1..numbers.category
        /\ chore[m].at \in {"write", "insert"} => chore[m].body \in Bodies
        /\ chore[m].at = "titles" =>
              chore[m].keep \subseteq 1..numbers.category /\ chore[m].new \in 0..1

LEMMA BibliographyLimits ==
    MaxEntries \in Nat /\ MaxSeconds \in Nat /\ MaxSeconds >= 1 /\ MaxChores \in Nat
BY BibliographyAssumption

LEMMA BoundInitial == ASSUME BibliographyInit PROVE BibliographyBound
<1>1. /\ numbers.entry = 0 /\ numbers.category = 0 /\ second = 1 /\ chores = 0 /\ DOMAIN entry = {}
      /\ category = {} /\ given = {} /\ leftOut = {} /\ loose = {}
      /\ shelf = [m \in Machines |-> {}] /\ \A m \in Machines : chore[m].at = "none"
  BY DEF BibliographyInit, NoChore
<1> QED
  BY <1>1, BibliographyLimits DEF BibliographyBound

\* What is kept when a device goes on with next, and no entry and no category is made.
LEMMA BoundNext ==
    ASSUME BibliographyTyped, BibliographyBound, NEW m \in Machines, NEW next,
           chore' = [chore EXCEPT ![m] = next],
           next.at \in {"write", "insert"} => next.body \in Bodies,
           next.at = "titles" => next.keep \subseteq 1..numbers.category /\ next.new \in 0..1,
           numbers' = numbers, second' = second, chores' \in 0..MaxChores,
           loose' \subseteq Machines, shelf' = [n \in Machines |-> shelf'[n]],
           \A n \in Machines : shelf'[n] \subseteq 1..numbers.category,
           category' \cup given' \cup leftOut' \subseteq 1..numbers.category,
           \A i \in DOMAIN entry' : entry'[i].body \in Bodies
    PROVE  BibliographyBound'
<1>1. \A n \in Machines : chore'[n] = IF n = m THEN next ELSE chore[n]
  BY DEF BibliographyTyped
<1> QED
  BY <1>1 DEF BibliographyBound

LEMMA BoundTitles == ASSUME BibliographyInv, BibliographyBound, NEW m \in Machines, SaveTitles(m)
                     PROVE  BibliographyBound'
<1> DEFINE n == numbers.category
           keep == chore[m].keep
           lost == keep \ category
           gone == Cardinality(lost) + chore[m].new
           fresh == (n + 1)..(n + gone)
<1>1. n \in Nat /\ keep \subseteq 1..n /\ chore[m].new \in 0..1 /\ category \subseteq 1..n
  BY DEF SaveTitles, BibliographyBound
<1>2. Cardinality(lost) \in Nat
  <2>1. lost \subseteq 1..n /\ n \in Nat
    BY <1>1
  <2> HIDE DEF lost, n
  <2>2. IsFiniteSet(1..n)
    BY <2>1, RangesFinite, Zenon
  <2>3. IsFiniteSet(lost)
    BY <2>1, <2>2, FS_Subset
  <2> QED
    BY <2>3, FS_CardinalityType
<1>3. gone \in Nat
  BY <1>1, <1>2
<1>4. /\ numbers' = [numbers EXCEPT !.category = n + gone] /\ category' = category \cup fresh
      /\ shelf' = [shelf EXCEPT ![m] = (keep \cap category) \cup fresh]
      /\ given' = given \cup fresh /\ chore' = [chore EXCEPT ![m] = NoChore] /\ chores' = chores
      /\ UNCHANGED <<entry, second, loose, leftOut>>
  BY DEF SaveTitles, Done, Then
<1>5. numbers'.category = n + gone /\ numbers'.entry = numbers.entry
  <2>1. numbers = [entry |-> numbers.entry, category |-> numbers.category]
    BY DEF BibliographyInv, BibliographyTyped
  <2> QED
    BY <1>4, <2>1
<1> HIDE DEF gone, fresh
<1>6. /\ \A x \in 1..n : x \in 1..(n + gone)
      /\ \A x \in fresh : x \in 1..(n + gone)
  BY <1>1, <1>3 DEF fresh
<1>7. \A k \in Machines : chore'[k] = (IF k = m THEN NoChore ELSE chore[k])
          /\ shelf'[k] = (IF k = m THEN (keep \cap category) \cup fresh ELSE shelf[k])
  BY <1>4 DEF BibliographyInv, BibliographyTyped, BibliographyBound
<1>8. shelf' = [k \in Machines |-> shelf'[k]]
  BY <1>4 DEF BibliographyBound
<1>9. NoChore.at = "none"
  BY DEF NoChore
<1>10. ASSUME NEW k \in Machines
       PROVE  /\ shelf'[k] \subseteq 1..(n + gone)
              /\ chore'[k].at \in {"write", "insert"} => chore'[k].body \in Bodies
              /\ chore'[k].at = "titles" =>
                    chore'[k].keep \subseteq 1..(n + gone) /\ chore'[k].new \in 0..1
  <2>1. CASE k = m
    BY <1>1, <1>6, <1>7, <1>9, <2>1
  <2>2. CASE k # m
    <3>1. /\ shelf[k] \subseteq 1..n
          /\ chore[k].at \in {"write", "insert"} => chore[k].body \in Bodies
          /\ chore[k].at = "titles" => chore[k].keep \subseteq 1..n /\ chore[k].new \in 0..1
      BY DEF BibliographyBound
    <3>2. chore'[k] = chore[k] /\ shelf'[k] = shelf[k]
      BY <1>7, <2>2
    <3> HIDE DEF n
    <3> QED
      BY <1>6, <3>1, <3>2
  <2> QED
    BY <2>1, <2>2
<1>11. category' \cup given' \cup leftOut' \subseteq 1..(n + gone) /\ n + gone \in Nat
  <2>1. category \cup given \cup leftOut \subseteq 1..n
    BY DEF BibliographyBound
  <2> HIDE DEF n
  <2> QED
    BY <1>1, <1>3, <1>4, <1>6, <2>1
<1>12. /\ numbers.entry <= MaxEntries /\ second <= MaxSeconds /\ chores \in 0..MaxChores
       /\ loose \subseteq Machines /\ \A i \in DOMAIN entry : entry[i].body \in Bodies
  BY DEF BibliographyBound
<1> HIDE DEF n
<1> QED
  BY <1>4, <1>5, <1>8, <1>10, <1>11, <1>12 DEF BibliographyBound

LEMMA BoundEntries ==
    ASSUME BibliographyInv, BibliographyBound, NEW m \in Machines,
           WriteEntry(m) \/ InsertEntry(m) \/ DeleteEntry(m)
    PROVE  BibliographyBound'
<1>1. /\ chore' = [chore EXCEPT ![m] = NoChore] /\ NoChore.at = "none"
      /\ UNCHANGED <<second, category, shelf, given, leftOut>>
  BY DEF WriteEntry, InsertEntry, DeleteEntry, Start, Done, Then, categories, NoChore
<1>2. loose' \subseteq Machines
  BY DEF WriteEntry, InsertEntry, DeleteEntry, EntriesChange, BibliographyBound
<1>3. chores' \in 0..MaxChores
  BY BibliographyLimits DEF WriteEntry, InsertEntry, DeleteEntry, Start, Done, Then, BibliographyBound
<1>4. \A i \in DOMAIN entry' : entry'[i].body \in Bodies
  <2>1. CASE DeleteEntry(m)
    BY <2>1 DEF DeleteEntry, BibliographyBound
  <2>2. CASE WriteEntry(m) \/ InsertEntry(m)
    <3>1. chore[m].body \in Bodies
      BY <2>2 DEF WriteEntry, InsertEntry, BibliographyBound
    <3>2. \E i : entry' = [j \in DOMAIN entry \cup {i} |->
                             IF j = i THEN [body |-> chore[m].body, at |-> second] ELSE entry[j]]
      BY <2>2 DEF WriteEntry, InsertEntry
    <3> QED
      BY <3>1, <3>2 DEF BibliographyBound
  <2> QED
    BY <2>1, <2>2
<1>5. CASE WriteEntry(m) \/ DeleteEntry(m)
  <2>1. numbers' = numbers
    BY <1>5 DEF WriteEntry, DeleteEntry
  <2> QED
    BY <1>1, <1>2, <1>3, <1>4, <2>1, BoundNext DEF BibliographyInv, BibliographyBound
<1>6. CASE InsertEntry(m)
  <2>1. numbers'.entry <= MaxEntries /\ numbers'.category = numbers.category
    <3>1. numbers = [entry |-> numbers.entry, category |-> numbers.category]
      BY DEF BibliographyInv, BibliographyTyped
    <3> QED
      BY <1>6, <3>1 DEF InsertEntry
  <2>2. \A n \in Machines : chore'[n] = IF n = m THEN NoChore ELSE chore[n]
    BY <1>1 DEF BibliographyInv, BibliographyTyped
  <2> QED
    BY <1>1, <1>2, <1>3, <1>4, <2>1, <2>2 DEF BibliographyBound
<1> QED
  BY <1>5, <1>6

LEMMA BoundRest ==
    ASSUME BibliographyInv, BibliographyBound, NEW m \in Machines,
           \/ BibList(m) \/ SendEntries(m) \/ SendCategories(m)
           \/ SaveEntry(m) \/ NewEntry(m) \/ SaveCategories(m) \/ DeleteCategories(m)
    PROVE  BibliographyBound'
<1>0. /\ BibliographyTyped /\ NoChore.at = "none" /\ chores \in 0..MaxChores
      /\ category \cup given \cup leftOut \subseteq 1..numbers.category
      /\ \A n \in Machines : shelf[n] \subseteq 1..numbers.category
      /\ shelf = [n \in Machines |-> shelf[n]] /\ loose \subseteq Machines
      /\ \A i \in DOMAIN entry : entry[i].body \in Bodies
  BY DEF BibliographyInv, BibliographyBound, NoChore
<1>1. ASSUME NEW next, Start(m, next)
      PROVE  chores' \in 0..MaxChores /\ chore' = [chore EXCEPT ![m] = next]
  BY <1>0, <1>1, BibliographyLimits DEF Start
<1>2. CASE BibList(m)
  <2> DEFINE next == [at |-> "list", modified |-> LastModified, count |-> Cardinality(DOMAIN entry)]
  <2>1. next.at = "list"
    OBVIOUS
  <2>2. /\ chore' = [chore EXCEPT ![m] = next] /\ loose' = loose \ {m}
        /\ UNCHANGED <<chores, entry, category, numbers, second, shelf, given, leftOut>>
    BY <1>2 DEF BibList, Then
  <2> HIDE DEF next
  <2> QED
    BY <1>0, <2>1, <2>2, BoundNext
<1>3. ASSUME shelf' = [shelf EXCEPT ![m] = category]
      PROVE  /\ shelf' = [n \in Machines |-> shelf'[n]]
             /\ \A n \in Machines : shelf'[n] \subseteq 1..numbers.category
  <2>1. \A n \in Machines : shelf'[n] = IF n = m THEN category ELSE shelf[n]
    BY <1>0, <1>3
  <2> QED
    BY <1>0, <1>3, <2>1
<1>4. CASE SendEntries(m)
  <2>1. /\ chore' = [chore EXCEPT ![m] = NoChore] /\ shelf' = [shelf EXCEPT ![m] = category]
        /\ given' = given \cup category
        /\ UNCHANGED <<chores, entry, category, numbers, second, loose, leftOut>>
    BY <1>4 DEF SendEntries, Done, Then
  <2> QED
    BY <1>0, <1>3, <2>1, BoundNext
<1>5. CASE SendCategories(m)
  <2>1. /\ shelf' = [shelf EXCEPT ![m] = category] /\ given' = given \cup category
        /\ UNCHANGED <<chore, chores, entry, category, numbers, second, loose, leftOut>>
    BY <1>5 DEF SendCategories
  <2> QED
    BY <1>0, <1>3, <2>1 DEF BibliographyBound
<1>6. CASE SaveEntry(m)
  <2>1. PICK i \in DOMAIN entry, b \in Bodies : Start(m, [at |-> "write", entry |-> i, body |-> b])
    BY <1>6 DEF SaveEntry
  <2> DEFINE next == [at |-> "write", entry |-> i, body |-> b]
  <2>2. next.at = "write" /\ next.body \in Bodies /\ Start(m, next)
    BY <2>1
  <2>3. UNCHANGED <<entry, category, numbers, second, shelf, loose, given, leftOut>>
    BY <1>6 DEF SaveEntry, categories
  <2> HIDE DEF next
  <2> QED
    BY <1>0, <1>1, <2>2, <2>3, BoundNext
<1>7. CASE NewEntry(m)
  <2>1. PICK b \in Bodies :
           Start(m, IF \E i \in DOMAIN entry : entry[i].body = b THEN NoChore
                    ELSE [at |-> "insert", body |-> b])
    BY <1>7 DEF NewEntry
  <2> DEFINE next == IF \E i \in DOMAIN entry : entry[i].body = b THEN NoChore
                     ELSE [at |-> "insert", body |-> b]
  <2>2. next.at \in {"none", "insert"} /\ (next.at = "insert" => next.body \in Bodies)
    BY <1>0
  <2>3. Start(m, next)
    BY <2>1
  <2>4. UNCHANGED <<entry, category, numbers, second, shelf, loose, given, leftOut>>
    BY <1>7 DEF NewEntry, categories
  <2> HIDE DEF next
  <2> QED
    BY <1>0, <1>1, <2>2, <2>3, <2>4, BoundNext
<1>8. CASE SaveCategories(m)
  <2>1. PICK keep \in SUBSET shelf[m], new \in 0..1 :
           /\ Start(m, [at |-> "titles", keep |-> keep, new |-> new])
           /\ category' = category \cap keep /\ leftOut' = leftOut \cup (category \ keep)
    BY <1>8 DEF SaveCategories
  <2> DEFINE next == [at |-> "titles", keep |-> keep, new |-> new]
  <2>2. /\ next.at = "titles" /\ next.keep \subseteq 1..numbers.category /\ next.new \in 0..1
        /\ Start(m, next)
    BY <1>0, <2>1
  <2>3. UNCHANGED <<entry, numbers, second, shelf, loose, given>>
    BY <1>8 DEF SaveCategories
  <2>4. category' \cup given' \cup leftOut' \subseteq 1..numbers.category
    BY <1>0, <2>1, <2>3
  <2> HIDE DEF next
  <2> QED
    BY <1>0, <1>1, <2>2, <2>3, <2>4, BoundNext
<1>9. CASE DeleteCategories(m)
  <2>1. PICK cs \in (SUBSET shelf[m]) \ {{}} : category' = category \ cs /\ leftOut' = leftOut \cup cs
    BY <1>9 DEF DeleteCategories
  <2>2. Start(m, NoChore) /\ UNCHANGED <<entry, numbers, second, shelf, loose, given>>
    BY <1>9 DEF DeleteCategories
  <2>3. category' \cup given' \cup leftOut' \subseteq 1..numbers.category
    BY <1>0, <2>1, <2>2
  <2> QED
    BY <1>0, <1>1, <2>2, <2>3, BoundNext
<1> QED
  BY <1>2, <1>4, <1>5, <1>6, <1>7, <1>8, <1>9

\* Entries say what was saved, and no device knows, and no request lists, a category that was
\* never made (biblist, save, save_category).
THEOREM BibliographyTypeCorrect == BibliographySpec => []BibliographyTypeOK
<1>1. BibliographyInit => BibliographyInv /\ BibliographyBound
  BY BibliographyInitial, BoundInitial
<1>2. BibliographyInv /\ [BibliographyNext]_bibliographyVars => BibliographyInv'
  BY BibliographyStepInv
<1>3. BibliographyInv /\ BibliographyBound /\ [BibliographyNext]_bibliographyVars => BibliographyBound'
  <2> SUFFICES ASSUME BibliographyInv, BibliographyBound, [BibliographyNext]_bibliographyVars
               PROVE  BibliographyBound'
    OBVIOUS
  <2>1. CASE Tick
    <3>1. second' = second + 1 /\ second < MaxSeconds /\ second \in Nat
      BY <2>1 DEF Tick, BibliographyInv, BibliographyTyped
    <3>2. UNCHANGED <<entry, category, numbers, shelf, chore, chores, loose, given, leftOut>>
      BY <2>1 DEF Tick
    <3> QED
      BY <3>1, <3>2, BibliographyLimits DEF BibliographyBound
  <2>2. CASE UNCHANGED bibliographyVars
    BY <2>2 DEF bibliographyVars, BibliographyBound
  <2> QED
    BY <2>1, <2>2, BoundTitles, BoundEntries, BoundRest DEF BibliographyNext
<1>4. BibliographyInv /\ BibliographyBound => BibliographyTypeOK
  <2> SUFFICES ASSUME BibliographyInv, BibliographyBound PROVE BibliographyTypeOK
    OBVIOUS
  <2>1. second \in 1..MaxSeconds
    BY BibliographyLimits DEF BibliographyInv, BibliographyTyped, BibliographyBound
  <2> QED
    BY <2>1 DEF BibliographyInv, BibliographyTyped, BibliographyBound, BibliographyTypeOK
<1> QED
  BY <1>1, <1>2, <1>3, <1>4, PTL DEF BibliographySpec

-----------------------------------------------------------------------------
(* The account of a user.                                                  *)

\* The part of the account a request is at work on, by the place it has come to.
OnOf(at) ==
    CASE at \in {"row", "rehash"} -> {"row"}
      [] at = "delete" -> Topics
      [] at = "drop" -> {"mail"}
      [] at \in {"demote", "promote", "email"} -> {"row", "mail"}
      [] at \in {"address", "device", "code", "open"} -> {"mail", "devices"}
      [] at \in {"setup", "create", "confirm", "tidy", "check", "disable", "expire"} -> {"devices"}
      [] at \in {"avatar", "save", "unshow"} -> {"avatar"}
      [] OTHER -> {}

UserRight(u, most) == u = [field |-> u.field, email |-> u.email] /\ u.field \in [Fields -> 0..most]

\* What a request knows.
ErrandRight(e, most) ==
    /\ e = [f \in DOMAIN e |-> e[f]] /\ "at" \in DOMAIN e /\ "on" \in DOMAIN e
    /\ e.on = OnOf(e.at)
    /\ e.at = "row" =>
          /\ "row" \in DOMAIN e /\ "field" \in DOMAIN e /\ "value" \in DOMAIN e
          /\ UserRight(e.row, most) /\ e.field \in Fields
    /\ e.at \in {"row", "rehash"} => "value" \in DOMAIN e /\ e.value \in 0..most
    /\ e.at \in {"demote", "promote", "email"} => "address" \in DOMAIN e
    /\ e.at \in {"address", "device", "code", "open"} => "row" \in DOMAIN e /\ UserRight(e.row, most)

\* The row, the sessions and the requests refer to requests that there were.
AccountsShape ==
    /\ asked \in Nat
    /\ user = {} \/ \E u \in user : user = {u}
    /\ \A u \in user : UserRight(u, asked)
    /\ set \in [Fields -> 0..asked]
    /\ issued = [device |-> issued.device, avatar |-> issued.avatar, session |-> issued.session]
    /\ issued.session \in Nat
    /\ \A s \in DOMAIN session : s \in 1..issued.session /\ session[s] \in 0..asked
    /\ shutOut \subseteq 1..issued.session
    /\ errand = [c \in Clerks |-> errand[c]]
    /\ \A c \in Clerks : ErrandRight(errand[c], asked)

\* An address is no more than a row with two marks; the primary one is verified.
AddressesRight ==
    \A a \in DOMAIN address :
        /\ address[a] = [primary |-> address[a].primary, verified |-> address[a].verified]
        /\ address[a].primary \in BOOLEAN
        /\ address[a].primary => address[a].verified

\* Two requests at work on one part unsettle it, ...
Apart ==
    \A c \in Clerks, d \in Clerks : c # d => errand[c].on \cap errand[d].on \subseteq unsettled

\* ... and so does one that goes on when the user is gone.
Gone == user = {} => \A c \in Clerks : errand[c].on \subseteq unsettled

\* The row is what the requests set, and who is to write it has read it so.
RowKept ==
    "row" \notin unsettled =>
        \A u \in user :
            /\ u.field = set
            /\ \A c \in Clerks : errand[c].at = "row" => errand[c].row.field = u.field

\* There is a primary address, the one in the row, but while a request puts another in its place.
MailKept ==
    "row" \notin unsettled /\ "mail" \notin unsettled =>
        \A u \in user :
            /\ \A c \in Clerks :
                /\ errand[c].at = "row" => errand[c].row.email = u.email
                /\ errand[c].at = "drop" => errand[c].address \notin Primaries
                /\ errand[c].at = "email" => Primaries = {errand[c].address}
            /\ \/ Primaries = {u.email}
               \/ Primaries = {} /\ \E c \in Clerks : errand[c].at = "promote"
               \/ \E c \in Clerks : errand[c].at = "email"

\* There is the one device that counts, or one that waits at most; and requests know of it.
DevicesKept ==
    "devices" \notin unsettled =>
        /\ guarded => \E d \in DOMAIN device : InForce = {d} /\ DOMAIN device = {d}
        /\ ~guarded => InForce = {} /\ \A d, e \in DOMAIN device : d = e
        /\ \A c \in Clerks :
            /\ errand[c].at \in {"setup", "create"} => ~guarded
            /\ errand[c].at = "create" => DOMAIN device = {}
            /\ errand[c].at = "confirm" => errand[c].device \in DOMAIN device /\ ~guarded
            /\ errand[c].at \in {"code", "check"} => errand[c].device \in InForce
            /\ errand[c].at = "tidy" => guarded

AvatarKept ==
    "avatar" \notin unsettled =>
        /\ \A a, b \in avatar : a = b
        /\ \A c \in Clerks : errand[c].at = "avatar" => avatar = {}

\* Nothing is left of a user who is gone.
Emptied ==
    user = {} /\ Topics \cap unsettled = {} =>
        DOMAIN address = {} /\ DOMAIN device = {} /\ avatar = {}

\* A password that is still to be written is known nowhere, ...
FreshPassword ==
    \A c \in Clerks : errand[c].at = "row" /\ errand[c].field = "password" =>
        /\ \A u \in user : u.field["password"] # errand[c].value
        /\ \A s \in DOMAIN session : session[s] # errand[c].value
        /\ \A d \in Clerks :
            /\ errand[d].at \in {"row", "address", "device", "code", "open"} =>
                  errand[d].row.field["password"] # errand[c].value
            /\ errand[d].at = "row" /\ d # c => errand[d].value # errand[c].value
            /\ errand[d].at = "rehash" => errand[d].value # errand[c].value

\* ... so that the sessions it ends do not have it.
ShutOutKept == \A s \in shutOut : s \in DOMAIN session => session[s] # set["password"]

AccountsInv ==
    /\ AccountsShape /\ AddressesRight /\ Apart /\ Gone
    /\ RowKept /\ MailKept /\ DevicesKept /\ AvatarKept /\ Emptied
    /\ FreshPassword /\ ShutOutKept

\* A request that comes to its next place knows what it knew.
LEMMA PlaceIs ==
    ASSUME NEW e, NEW place, e = [f \in DOMAIN e |-> e[f]], "at" \in DOMAIN e, "on" \in DOMAIN e
    PROVE  LET n == [e EXCEPT !.at = place]
           IN  /\ n = [f \in DOMAIN n |-> n[f]] /\ DOMAIN n = DOMAIN e
               /\ n.at = place /\ n.on = e.on
               /\ "row" \in DOMAIN e => n.row = e.row
               /\ "value" \in DOMAIN e => n.value = e.value
               /\ "address" \in DOMAIN e => n.address = e.address
OBVIOUS

\* Requests as they are taken on.
AccountRequest(c) ==
    \/ \E s \in DOMAIN session :
        \/ SaveProfile(c, s) \/ UpdatePreferences(c, s) \/ ChangePassword(c, s) \/ DeleteUser(c, s)
        \/ AddEmail(c, s) \/ DeleteEmail(c, s) \/ PrimaryEmail(c, s) \/ Logout(c, s)
        \/ SetUp(c, s) \/ Verify(c, s) \/ Disable(c, s)
        \/ UploadAvatar(c, s) \/ DeleteAvatar(c, s)
    \/ Login(c)

\* What a request has read when it is taken on, and what it has changed then.
Asks(c, next) ==
    /\ Take(c, next) /\ ErrandRight(next, asked + 1)
    /\ UNCHANGED <<user, device, issued, set, guarded, shutOut>>
    /\ next.on # {} => user # {}
    /\ next.at \in {"none", "row", "delete", "drop", "demote", "address", "setup", "confirm",
                    "check", "avatar", "unshow"}
    /\ next.at \in {"row", "address"} => next.row \in user
    /\ next.at = "row" => next.value = asked + 1
    /\ next.at = "drop" => IsSecondary(next.address)
    /\ next.at = "setup" => InForce = {}
    /\ next.at = "confirm" => next.device \in DOMAIN device \ InForce
    /\ next.at = "check" => next.device \in InForce
    /\ avatar' = IF next.at = "avatar" THEN {} ELSE avatar
    /\ \/ address' = address
       \/ /\ next.at = "none" /\ user # {}
          /\ \E a : a \notin DOMAIN address
                    /\ address' = Put(address, a, [primary |-> FALSE, verified |-> FALSE])
    /\ session' = session \/ \E s : session' = Cut(session, {s})

LEMMA RequestAsks ==
    ASSUME AccountsShape, NEW c \in Clerks, AccountRequest(c)
    PROVE  \E next : Asks(c, next)
<1>a. asked \in Nat /\ \A u \in user : UserRight(u, asked + 1)
  BY DEF AccountsShape, UserRight
<1>b. NoErrand.at = "none" /\ NoErrand.on = {} /\ ErrandRight(NoErrand, asked + 1)
  BY DEF NoErrand, ErrandRight, OnOf
<1>c. \A s : LoggedIn(s) => user # {}
  BY DEF LoggedIn
<1>1. ASSUME NEW s \in DOMAIN session, NEW fields \in SUBSET Fields, SetField(c, s, fields)
      PROVE  \E next : Asks(c, next)
  <2>1. PICK u \in user, f \in fields :
          Take(c, [at |-> "row", on |-> {"row"}, row |-> u, field |-> f, value |-> asked + 1])
    BY <1>1 DEF SetField
  <2> DEFINE next == [at |-> "row", on |-> {"row"}, row |-> u, field |-> f, value |-> asked + 1]
  <2>2. ErrandRight(next, asked + 1)
    BY <1>a DEF ErrandRight, OnOf
  <2>3. UNCHANGED <<user, device, issued, set, guarded, shutOut, avatar, address, session>>
    BY <1>1 DEF SetField, accountRows, accountPast
  <2>4. Asks(c, next)
    BY <2>1, <2>2, <2>3 DEF Asks
  <2> QED BY <2>4
<1>2. ASSUME NEW s \in DOMAIN session, ChangePassword(c, s)
      PROVE  \E next : Asks(c, next)
  <2>1. PICK u \in user :
          Take(c, [at |-> "row", on |-> {"row"}, row |-> u, field |-> "password",
                   value |-> asked + 1, session |-> s])
    BY <1>2 DEF ChangePassword
  <2> DEFINE next == [at |-> "row", on |-> {"row"}, row |-> u, field |-> "password",
                      value |-> asked + 1, session |-> s]
  <2>2. ErrandRight(next, asked + 1)
    <3>1. /\ UserRight(u, asked + 1) /\ "password" \in Fields
          /\ asked + 1 \in 0..(asked + 1)
        BY <1>a DEF Fields
    <3>2. OnOf("row") = {"row"}
        BY DEF OnOf
    <3> QED
        BY <3>1, <3>2 DEF ErrandRight
  <2>3. UNCHANGED <<user, device, issued, set, guarded, shutOut, avatar, address, session>>
    BY <1>2 DEF ChangePassword, accountRows, accountPast
  <2>4. Asks(c, next)
    BY <2>1, <2>2, <2>3 DEF Asks
  <2> QED BY <2>4
<1>3. ASSUME NEW s \in DOMAIN session, DeleteUser(c, s)
      PROVE  \E next : Asks(c, next)
  <2> DEFINE next == [at |-> "delete", on |-> Topics]
  <2>1. ErrandRight(next, asked + 1)
    BY DEF ErrandRight, OnOf
  <2>2. Asks(c, next)
    BY <1>3, <1>c, <2>1 DEF DeleteUser, Asks, accountPast
  <2> QED BY <2>2
<1>4. ASSUME NEW s \in DOMAIN session, AddEmail(c, s) \/ Logout(c, s)
      PROVE  \E next : Asks(c, next)
  <2>1. Asks(c, NoErrand)
    BY <1>4, <1>b, <1>c DEF AddEmail, Logout, Asks, accountPast
  <2> QED BY <2>1
<1>5. ASSUME NEW s \in DOMAIN session, DeleteEmail(c, s)
      PROVE  \E next : Asks(c, next)
  <2>1. PICK a \in Addresses :
          IsSecondary(a) /\ Take(c, [at |-> "drop", on |-> {"mail"}, address |-> a])
    BY <1>5 DEF DeleteEmail
  <2> DEFINE next == [at |-> "drop", on |-> {"mail"}, address |-> a]
  <2>2. ErrandRight(next, asked + 1)
    BY DEF ErrandRight, OnOf
  <2>3. UNCHANGED <<user, device, issued, set, guarded, shutOut, avatar, address, session>> /\ user # {}
    BY <1>5, <1>c DEF DeleteEmail, accountRows, accountPast
  <2>4. Asks(c, next)
    BY <2>1, <2>2, <2>3 DEF Asks
  <2> QED BY <2>4
<1>6. ASSUME NEW s \in DOMAIN session, PrimaryEmail(c, s)
      PROVE  \E next : Asks(c, next)
  <2>1. PICK a : Take(c, [at |-> "demote", on |-> {"row", "mail"}, address |-> a])
    BY <1>6 DEF PrimaryEmail
  <2> DEFINE next == [at |-> "demote", on |-> {"row", "mail"}, address |-> a]
  <2>2. ErrandRight(next, asked + 1)
    BY DEF ErrandRight, OnOf
  <2>3. UNCHANGED <<user, device, issued, set, guarded, shutOut, avatar, address, session>> /\ user # {}
    BY <1>6, <1>c DEF PrimaryEmail, accountRows, accountPast
  <2>4. Asks(c, next)
    BY <2>1, <2>2, <2>3 DEF Asks
  <2> QED BY <2>4
<1>7. ASSUME NEW s \in DOMAIN session, SetUp(c, s)
      PROVE  \E next : Asks(c, next)
  <2> DEFINE next == [at |-> "setup", on |-> {"devices"}]
  <2>1. ErrandRight(next, asked + 1)
    BY DEF ErrandRight, OnOf
  <2>2. Asks(c, next)
    BY <1>7, <1>c, <2>1 DEF SetUp, Asks, accountRows, accountPast
  <2> QED BY <2>2
<1>8. ASSUME NEW s \in DOMAIN session, Verify(c, s)
      PROVE  \E next : Asks(c, next)
  <2>1. PICK d \in DOMAIN device \ InForce :
          Take(c, [at |-> "confirm", on |-> {"devices"}, device |-> d])
    BY <1>8 DEF Verify
  <2> DEFINE next == [at |-> "confirm", on |-> {"devices"}, device |-> d]
  <2>2. ErrandRight(next, asked + 1)
    BY DEF ErrandRight, OnOf
  <2>3. UNCHANGED <<user, device, issued, set, guarded, shutOut, avatar, address, session>> /\ user # {}
    BY <1>8, <1>c DEF Verify, accountRows, accountPast
  <2>4. Asks(c, next)
    BY <2>1, <2>2, <2>3 DEF Asks
  <2> QED BY <2>4
<1>9. ASSUME NEW s \in DOMAIN session, Disable(c, s)
      PROVE  \E next : Asks(c, next)
  <2>1. PICK d \in InForce :
          Take(c, [at |-> "check", on |-> {"devices"}, device |-> d, session |-> s])
    BY <1>9 DEF Disable, FirstInForce
  <2> DEFINE next == [at |-> "check", on |-> {"devices"}, device |-> d, session |-> s]
  <2>2. ErrandRight(next, asked + 1)
    BY DEF ErrandRight, OnOf
  <2>3. UNCHANGED <<user, device, issued, set, guarded, shutOut, avatar, address, session>> /\ user # {}
    BY <1>9, <1>c DEF Disable, accountRows, accountPast
  <2>4. Asks(c, next)
    BY <2>1, <2>2, <2>3 DEF Asks
  <2> QED BY <2>4
<1>10. ASSUME NEW s \in DOMAIN session, UploadAvatar(c, s)
       PROVE  \E next : Asks(c, next)
  <2> DEFINE next == [at |-> "avatar", on |-> {"avatar"}]
  <2>1. ErrandRight(next, asked + 1)
    BY DEF ErrandRight, OnOf
  <2>2. Asks(c, next)
    BY <1>10, <1>c, <2>1 DEF UploadAvatar, Asks, accountPast
  <2> QED BY <2>2
<1>11. ASSUME NEW s \in DOMAIN session, DeleteAvatar(c, s)
       PROVE  \E next : Asks(c, next)
  <2>1. PICK a \in avatar :
          Take(c, [at |-> "unshow", on |-> {"avatar"}, avatar |-> a, others |-> avatar \ {a}])
    BY <1>11 DEF DeleteAvatar
  <2> DEFINE next == [at |-> "unshow", on |-> {"avatar"}, avatar |-> a, others |-> avatar \ {a}]
  <2>2. ErrandRight(next, asked + 1)
    BY DEF ErrandRight, OnOf
  <2>3. UNCHANGED <<user, device, issued, set, guarded, shutOut, avatar, address, session>> /\ user # {}
    BY <1>11, <1>c DEF DeleteAvatar, accountRows, accountPast
  <2>4. Asks(c, next)
    BY <2>1, <2>2, <2>3 DEF Asks
  <2> QED BY <2>4
<1>12. ASSUME Login(c)
       PROVE  \E next : Asks(c, next)
  <2>1. PICK u \in user : Take(c, [at |-> "address", on |-> {"mail", "devices"}, row |-> u])
    BY <1>12 DEF Login
  <2> DEFINE next == [at |-> "address", on |-> {"mail", "devices"}, row |-> u]
  <2>2. ErrandRight(next, asked + 1)
    BY <1>a DEF ErrandRight, OnOf
  <2>3. UNCHANGED <<user, device, issued, set, guarded, shutOut, avatar, address, session>>
    BY <1>12 DEF Login, accountRows, accountPast
  <2>4. Asks(c, next)
    BY <2>1, <2>2, <2>3 DEF Asks
  <2> QED BY <2>4
<1>13. {"profile"} \in SUBSET Fields /\ {"words", "offer"} \in SUBSET Fields
  BY DEF Fields
<1> QED
  BY <1>1, <1>2, <1>3, <1>4, <1>5, <1>6, <1>7, <1>8, <1>9, <1>10, <1>11, <1>12, <1>13
     DEF AccountRequest, SaveProfile, UpdatePreferences

\* Requests as they go on.
Work(c) ==
    \/ WriteUser(c) \/ Rehash(c) \/ RemoveUser(c)
    \/ DropAddress(c) \/ Demote(c) \/ Promote(c) \/ WriteEmail(c)
    \/ LoginAddress(c) \/ LoginDevice(c) \/ LoginCode(c) \/ OpenSession(c)
    \/ SetUpAgain(c) \/ CreateDevice(c) \/ ConfirmDevice(c) \/ TidyDevices(c)
    \/ CheckCode(c) \/ RemoveDevices(c) \/ ExpireSessions(c)
    \/ InsertAvatar(c) \/ SaveAvatar(c) \/ RemoveAvatar(c)

\* Where they come to, and what they know there.
Works(c, next) ==
    /\ Proceed(c, next) /\ ErrandRight(next, asked)
    /\ errand[c].on # {} /\ next.on \subseteq errand[c].on
    /\ next.at \in {"none", "rehash", "promote", "email", "device", "open", "code", "create",
                    "tidy", "disable", "expire", "save"}
    /\ next.at = "rehash" => /\ errand[c].at = "row" /\ errand[c].field = "password"
                             /\ next.value = errand[c].value
    /\ next.at \in {"device", "code", "open"} =>
          errand[c].at \in {"address", "device", "code"} /\ next.row = errand[c].row
    /\ next.at = "promote" => errand[c].at = "demote"
    /\ next.at = "email" => errand[c].at = "promote" /\ next.address = errand[c].address
    /\ next.at = "code" => next.device \in InForce
    /\ next.at = "create" => errand[c].at = "setup" /\ DOMAIN device \ InForce = {}
    /\ next.at = "tidy" => errand[c].at = "confirm"

LEMMA WorkWorks ==
    ASSUME AccountsShape, NEW c \in Clerks, Work(c)
    PROVE  \E next : Works(c, next)
<1> DEFINE e == errand[c]
<1>a. ErrandRight(e, asked) /\ asked \in Nat
  BY DEF AccountsShape
<1>b. NoErrand.at = "none" /\ NoErrand.on = {} /\ ErrandRight(NoErrand, asked)
  BY DEF NoErrand, ErrandRight, OnOf
<1>c. e.at \notin {"none"} /\ e.at \in {"row", "rehash", "delete", "drop", "demote", "promote",
        "email", "address", "device", "code", "open", "setup", "create", "confirm", "tidy",
        "check", "disable", "expire", "avatar", "save", "unshow"}
  BY DEF Work, WriteUser, Rehash, RemoveUser, DropAddress, Demote, Promote, WriteEmail, LoginAddress,
         LoginDevice, LoginCode, OpenSession, SetUpAgain, CreateDevice, ConfirmDevice, TidyDevices,
         CheckCode, RemoveDevices, ExpireSessions, InsertAvatar, SaveAvatar, RemoveAvatar
<1>d. e.on # {}
  BY <1>a, <1>c DEF ErrandRight, OnOf, Topics
<1>e. Finish(c) => Works(c, NoErrand)
  BY <1>b, <1>d DEF Finish, Works
<1>f. ASSUME NEW place PROVE
        LET n == [e EXCEPT !.at = place]
        IN  /\ n = [f \in DOMAIN n |-> n[f]] /\ DOMAIN n = DOMAIN e
            /\ n.at = place /\ n.on = e.on
            /\ "row" \in DOMAIN e => n.row = e.row
            /\ "value" \in DOMAIN e => n.value = e.value
            /\ "address" \in DOMAIN e => n.address = e.address
  BY <1>a, PlaceIs DEF ErrandRight
<1>g. ASSUME NEW place, To(c, place),
             \/ place = "rehash" /\ e.at = "row" /\ e.field = "password"
             \/ place = "promote" /\ e.at = "demote"
             \/ place = "email" /\ e.at = "promote"
             \/ place = "device" /\ e.at = "address"
             \/ place = "open" /\ e.at \in {"device", "code"}
             \/ place = "create" /\ e.at = "setup" /\ DOMAIN device \ InForce = {}
             \/ place = "tidy" /\ e.at = "confirm"
             \/ place = "disable" /\ e.at = "check"
             \/ place = "expire" /\ e.at = "disable"
      PROVE  \E next : Works(c, next)
  <2> DEFINE n == [e EXCEPT !.at = place]
  <2>0. Proceed(c, n)
    BY <1>g DEF To
  <2>1. /\ n = [f \in DOMAIN n |-> n[f]] /\ DOMAIN n = DOMAIN e
        /\ n.at = place /\ n.on = e.on
        /\ "row" \in DOMAIN e => n.row = e.row
        /\ "value" \in DOMAIN e => n.value = e.value
        /\ "address" \in DOMAIN e => n.address = e.address
    BY <1>f
  <2> HIDE DEF n, e
  <2>2. e.on = OnOf(e.at) /\ OnOf(e.at) = OnOf(place)
    BY <1>a, <1>g DEF ErrandRight, OnOf
  <2>3. /\ e.at = "row" => "value" \in DOMAIN e /\ e.value \in 0..asked
        /\ e.at \in {"demote", "promote"} => "address" \in DOMAIN e
        /\ e.at \in {"address", "device", "code"} => "row" \in DOMAIN e /\ UserRight(e.row, asked)
        /\ "at" \in DOMAIN e /\ "on" \in DOMAIN e
    BY <1>a DEF ErrandRight
  <2>4. ErrandRight(n, asked)
    BY <1>g, <2>1, <2>2, <2>3 DEF ErrandRight
  <2>5. Works(c, n)
    BY <1>d, <1>g, <2>0, <2>1, <2>3, <2>4 DEF Works, e
  <2> QED BY <2>5
<1>1. CASE WriteUser(c)
  BY <1>1, <1>e, <1>g DEF WriteUser
<1>2. CASE Rehash(c) \/ RemoveUser(c) \/ DropAddress(c) \/ WriteEmail(c) \/ OpenSession(c)
             \/ CreateDevice(c) \/ TidyDevices(c) \/ ExpireSessions(c) \/ SaveAvatar(c) \/ RemoveAvatar(c)
  BY <1>2, <1>e DEF Rehash, RemoveUser, DropAddress, WriteEmail, OpenSession, CreateDevice, TidyDevices,
                    ExpireSessions, SaveAvatar, RemoveAvatar
<1>3. CASE Demote(c) \/ Promote(c) \/ LoginAddress(c)
  BY <1>3, <1>e, <1>g DEF Demote, Promote, LoginAddress
<1>4. CASE LoginDevice(c)
  <2>1. CASE To(c, "open") \/ Finish(c)
    BY <2>1, <1>4, <1>e, <1>g DEF LoginDevice
  <2>2. CASE \E d \in FirstInForce :
               Proceed(c, [at |-> "code", on |-> e.on, row |-> e.row, device |-> d])
    <3>1. PICK d \in FirstInForce :
            Proceed(c, [at |-> "code", on |-> e.on, row |-> e.row, device |-> d])
      BY <2>2
    <3> DEFINE n == [at |-> "code", on |-> e.on, row |-> e.row, device |-> d]
    <3>2. e.at = "device" /\ e.on = OnOf("code") /\ UserRight(e.row, asked)
      BY <1>4, <1>a DEF LoginDevice, ErrandRight, OnOf
    <3>3. ErrandRight(n, asked)
      BY <3>2 DEF ErrandRight
    <3>4. d \in InForce
      BY DEF FirstInForce
    <3>5. Works(c, n)
      BY <3>1, <3>2, <3>3, <3>4, <1>d DEF Works
    <3> QED BY <3>5
  <2> QED BY <1>4, <2>1, <2>2 DEF LoginDevice
<1>5. CASE LoginCode(c) \/ CheckCode(c) \/ ConfirmDevice(c) \/ RemoveDevices(c) \/ SetUpAgain(c)
  BY <1>5, <1>e, <1>g DEF LoginCode, CheckCode, ConfirmDevice, RemoveDevices, SetUpAgain
<1>6. CASE InsertAvatar(c)
  <2>1. CASE Finish(c)
    BY <2>1, <1>e
  <2>2. CASE Proceed(c, [at |-> "save", on |-> {"avatar"}, avatar |-> NextOf("avatar")])
    <3> DEFINE n == [at |-> "save", on |-> {"avatar"}, avatar |-> NextOf("avatar")]
    <3>1. ErrandRight(n, asked) /\ e.on = {"avatar"}
      BY <1>6, <1>a DEF ErrandRight, OnOf, InsertAvatar
    <3>2. Works(c, n)
      BY <2>2, <3>1 DEF Works
    <3> QED BY <3>2
  <2> QED BY <1>6, <2>1, <2>2 DEF InsertAvatar
<1> QED BY <1>1, <1>2, <1>3, <1>4, <1>5, <1>6 DEF Work

\* One request moves, and the others stay where they are.
LEMMA OthersStand ==
    ASSUME errand = [d \in Clerks |-> errand[d]], NEW c \in Clerks, NEW next,
           errand' = [errand EXCEPT ![c] = next]
    PROVE  /\ errand' = [d \in Clerks |-> errand'[d]] /\ errand'[c] = next
           /\ \A d \in Clerks : d # c => errand'[d] = errand[d]
OBVIOUS

LEMMA RightLonger ==
    ASSUME NEW most \in Nat
    PROVE  /\ \A e : ErrandRight(e, most) => ErrandRight(e, most + 1)
           /\ \A u : UserRight(u, most) => UserRight(u, most + 1)
<1>1. 0..most \subseteq 0..(most + 1)
  OBVIOUS
<1>2. \A u : UserRight(u, most) => UserRight(u, most + 1)
  BY <1>1 DEF UserRight
<1> QED BY <1>1, <1>2 DEF ErrandRight

\* What every step does to the requests.
LEMMA ErrandsStep ==
    ASSUME AccountsShape, NEW c \in Clerks, AccountRequest(c) \/ Work(c) \/ Break(c)
    PROVE  /\ asked' \in Nat /\ asked' \in {asked, asked + 1}
           /\ errand' = [d \in Clerks |-> errand'[d]]
           /\ \A d \in Clerks : d # c => errand'[d] = errand[d]
           /\ \A d \in Clerks : ErrandRight(errand'[d], asked')
<1>a. errand = [d \in Clerks |-> errand[d]] /\ asked \in Nat /\ \A d \in Clerks : ErrandRight(errand[d], asked)
  BY DEF AccountsShape
<1>1. CASE AccountRequest(c)
  <2>1. PICK next : Take(c, next) /\ ErrandRight(next, asked + 1)
    BY <1>1, RequestAsks DEF Asks
  <2>2. /\ errand' = [d \in Clerks |-> errand'[d]] /\ errand'[c] = next
        /\ \A d \in Clerks : d # c => errand'[d] = errand[d]
    BY <1>a, <2>1, OthersStand DEF Take
  <2>3. \A d \in Clerks : ErrandRight(errand'[d], asked + 1)
    BY <1>a, <2>1, <2>2, RightLonger
  <2> QED BY <1>a, <2>1, <2>2, <2>3 DEF Take
<1>2. CASE Work(c)
  <2>1. PICK next : Proceed(c, next) /\ ErrandRight(next, asked)
    BY <1>2, WorkWorks DEF Works
  <2>2. /\ errand' = [d \in Clerks |-> errand'[d]] /\ errand'[c] = next
        /\ \A d \in Clerks : d # c => errand'[d] = errand[d]
    BY <1>a, <2>1, OthersStand DEF Proceed
  <2> QED BY <1>a, <2>1, <2>2 DEF Proceed
<1>3. CASE Break(c)
  <2>1. /\ errand' = [d \in Clerks |-> errand'[d]] /\ errand'[c] = NoErrand
        /\ \A d \in Clerks : d # c => errand'[d] = errand[d]
    BY <1>a, <1>3, OthersStand DEF Break
  <2>2. ErrandRight(NoErrand, asked)
    BY DEF NoErrand, ErrandRight, OnOf
  <2> QED BY <1>a, <1>3, <2>1, <2>2 DEF Break
<1> QED BY <1>1, <1>2, <1>3

-----------------------------------------------------------------------------
(* Shapes.                                                                 *)

\* The rows and sessions there may be, when the last request has this number.
RowsRightAt(most) ==
    /\ user = {} \/ \E u \in user : user = {u}
    /\ \A u \in user : UserRight(u, most)
    /\ set \in [Fields -> 0..most]
    /\ issued = [device |-> issued.device, avatar |-> issued.avatar, session |-> issued.session]
    /\ issued.session \in Nat
    /\ \A s \in DOMAIN session : s \in 1..issued.session /\ session[s] \in 0..most
    /\ shutOut \subseteq 1..issued.session

LEMMA ShapeParts ==
    AccountsShape <=>
        /\ asked \in Nat /\ RowsRightAt(asked)
        /\ errand = [c \in Clerks |-> errand[c]]
        /\ \A c \in Clerks : ErrandRight(errand[c], asked)
BY DEF AccountsShape, RowsRightAt

\* The next number of a kind.
LEMMA MakeIs ==
    ASSUME issued = [device |-> issued.device, avatar |-> issued.avatar, session |-> issued.session],
           NEW kind \in {"device", "avatar", "session"}, Make(kind)
    PROVE  /\ issued' = [device |-> issued'.device, avatar |-> issued'.avatar, session |-> issued'.session]
           /\ kind = "device" => issued'.device = issued.device + 1 /\ issued'.session = issued.session
           /\ kind = "session" => issued'.session = issued.session + 1 /\ issued'.device = issued.device
           /\ kind = "avatar" => issued'.session = issued.session /\ issued'.device = issued.device
BY DEF Make

LEMMA RowsStep ==
    ASSUME AccountsShape, NEW c \in Clerks, AccountRequest(c) \/ Work(c) \/ Break(c)
    PROVE  RowsRightAt(asked)'
<1>a. RowsRightAt(asked) /\ asked \in Nat /\ asked' \in Nat /\ \A d \in Clerks : ErrandRight(errand[d], asked)
  BY ErrandsStep, ShapeParts
<1>1. CASE AccountRequest(c)
  <2>1. PICK next : Asks(c, next)
    BY <1>1, RequestAsks
  <2>2. asked' = asked + 1 /\ UNCHANGED <<user, device, issued, set, shutOut>>
    BY <2>1 DEF Asks, Take
  <2>3. \A s \in DOMAIN session' : s \in DOMAIN session /\ session'[s] = session[s]
    <3>1. CASE session' = session
      BY <3>1
    <3>2. CASE \E s : session' = Cut(session, {s})
      BY <3>2 DEF Cut
    <3> QED BY <2>1, <3>1, <3>2 DEF Asks
  <2>4. 0..asked \subseteq 0..asked' /\ \A u \in user : UserRight(u, asked')
    BY <1>a, <2>2, RightLonger DEF RowsRightAt
  <2>5. set \in [Fields -> 0..asked'] /\ \A s \in DOMAIN session' : s \in 1..issued.session /\ session'[s] \in 0..asked'
    BY <1>a, <2>3, <2>4 DEF RowsRightAt
  <2> QED BY <1>a, <2>2, <2>4, <2>5 DEF RowsRightAt
<1>2. CASE Work(c)
  <2>0. asked' = asked
    BY <1>2, WorkWorks DEF Works, Proceed
  <2>1. CASE WriteUser(c)
    <3> DEFINE e == errand[c]
    <3>1. /\ user' = {[e.row EXCEPT !.field[e.field] = e.value]}
          /\ set' = [set EXCEPT ![e.field] = e.value]
          /\ shutOut' = shutOut \/ shutOut' = shutOut \cup DOMAIN session
          /\ UNCHANGED <<device, session, issued>>
          /\ e.at = "row"
      BY <2>1 DEF WriteUser
    <3>2. UserRight(e.row, asked) /\ e.field \in Fields /\ e.value \in 0..asked
      BY <1>a, <3>1 DEF ErrandRight
    <3> HIDE DEF e
    <3>3. PICK fs \in [Fields -> 0..asked] : e.row = [field |-> fs, email |-> e.row.email]
      BY <3>2 DEF UserRight
    <3>4. [e.row EXCEPT !.field[e.field] = e.value] = [field |-> [fs EXCEPT ![e.field] = e.value], email |-> e.row.email]
      BY <3>3
    <3>5. UserRight([e.row EXCEPT !.field[e.field] = e.value], asked)
      BY <3>2, <3>4 DEF UserRight
    <3>6. set' \in [Fields -> 0..asked] /\ shutOut' \subseteq 1..issued.session
      BY <1>a, <3>1, <3>2 DEF RowsRightAt
    <3> QED BY <1>a, <2>0, <3>1, <3>5, <3>6 DEF RowsRightAt
  <2>2. CASE Rehash(c) \/ OpenSession(c)
    <3>0. \E old : \E v \in 0..asked :
            /\ session' = Put(old, issued.session + 1, v) /\ Make("session")
            /\ \A s \in DOMAIN old : s \in DOMAIN session /\ old[s] = session[s]
            /\ UNCHANGED <<user, device, set, shutOut>>
      <4>1. CASE Rehash(c)
        <5>1. /\ session' = Put(Cut(session, {errand[c].session}), issued.session + 1, errand[c].value)
              /\ Make("session") /\ UNCHANGED <<user, device, set, shutOut>> /\ errand[c].at = "rehash"
          BY <4>1 DEF Rehash, NextOf, accountPast
        <5>2. errand[c].value \in 0..asked
          BY <1>a, <5>1 DEF ErrandRight
        <5>3. \A s \in DOMAIN Cut(session, {errand[c].session}) :
                s \in DOMAIN session /\ Cut(session, {errand[c].session})[s] = session[s]
          BY DEF Cut
        <5> WITNESS Cut(session, {errand[c].session})
        <5> QED BY <5>1, <5>2, <5>3
      <4>2. CASE OpenSession(c)
        <5>1. /\ session' = Put(session, issued.session + 1, errand[c].row.field["password"])
              /\ Make("session") /\ UNCHANGED <<user, device, set, shutOut>> /\ errand[c].at = "open"
          BY <4>2 DEF OpenSession, NextOf, accountPast
        <5>2. errand[c].row.field["password"] \in 0..asked
          BY <1>a, <5>1 DEF ErrandRight, UserRight, Fields
        <5> WITNESS session
        <5> QED BY <5>1, <5>2
      <4> QED BY <2>2, <4>1, <4>2
    <3>1. PICK old : \E v \in 0..asked :
            /\ session' = Put(old, issued.session + 1, v) /\ Make("session")
            /\ \A s \in DOMAIN old : s \in DOMAIN session /\ old[s] = session[s]
            /\ UNCHANGED <<user, device, set, shutOut>>
      BY <3>0
    <3>v. PICK v \in 0..asked : session' = Put(old, issued.session + 1, v)
      BY <3>1
    <3>2. /\ DOMAIN session' = DOMAIN old \cup {issued.session + 1}
          /\ session'[issued.session + 1] = v
          /\ \A s \in DOMAIN old : s # issued.session + 1 => session'[s] = old[s]
      BY <3>v DEF Put
    <3>3. /\ issued' = [device |-> issued'.device, avatar |-> issued'.avatar, session |-> issued'.session]
          /\ issued'.session = issued.session + 1 /\ issued'.device = issued.device
      BY <1>a, <3>1, MakeIs DEF RowsRightAt
    <3>4. \A s \in DOMAIN session' : s \in 1..issued'.session /\ session'[s] \in 0..asked
      BY <1>a, <3>1, <3>2, <3>3 DEF RowsRightAt
    <3>5. shutOut' \subseteq 1..issued'.session /\ issued'.session \in Nat
      BY <1>a, <3>1, <3>3 DEF RowsRightAt
    <3> QED BY <1>a, <2>0, <3>1, <3>3, <3>4, <3>5 DEF RowsRightAt
  <2>3. CASE RemoveUser(c)
    <3>1. /\ user' = {} /\ UNCHANGED <<session, issued, set, shutOut>>
      BY <2>3 DEF RemoveUser
    <3> QED BY <1>a, <2>0, <3>1 DEF RowsRightAt
  <2>4. CASE WriteEmail(c)
    <3>1. /\ user' = {[u EXCEPT !.email = errand[c].address] : u \in user}
          /\ UNCHANGED <<device, session, issued, set, shutOut>>
      BY <2>4 DEF WriteEmail, accountPast
    <3>2. \A u \in user : UserRight([u EXCEPT !.email = errand[c].address], asked)
      <4> TAKE u \in user
      <4>1. PICK fs \in [Fields -> 0..asked] : u = [field |-> fs, email |-> u.email]
        BY <1>a DEF RowsRightAt, UserRight
      <4>2. [u EXCEPT !.email = errand[c].address] = [field |-> fs, email |-> errand[c].address]
        BY <4>1
      <4> QED BY <4>2 DEF UserRight
    <3>3. user' = {} \/ \E u \in user' : user' = {u}
      <4>1. CASE user = {}
        BY <3>1, <4>1
      <4>2. CASE \E u \in user : user = {u}
        <5>1. PICK u \in user : user = {u}
          BY <4>2
        <5>2. user' = {[u EXCEPT !.email = errand[c].address]}
          BY <3>1, <5>1
        <5> QED BY <5>2
      <4> QED BY <1>a, <4>1, <4>2 DEF RowsRightAt
    <3> QED BY <1>a, <2>0, <3>1, <3>2, <3>3 DEF RowsRightAt
  <2>5. CASE CreateDevice(c)
    <3>1. UNCHANGED <<user, session, set, shutOut>> /\ (issued' = issued \/ Make("device"))
      BY <2>5 DEF CreateDevice, accountPast
    <3>2. /\ issued' = [device |-> issued'.device, avatar |-> issued'.avatar, session |-> issued'.session]
          /\ issued'.session = issued.session
      BY <1>a, <3>1, MakeIs DEF RowsRightAt
    <3> QED BY <1>a, <2>0, <3>1, <3>2 DEF RowsRightAt
  <2>6. CASE LoginCode(c) \/ ConfirmDevice(c) \/ CheckCode(c) \/ TidyDevices(c) \/ RemoveDevices(c)
    <3>1. UNCHANGED <<user, session, issued, set, shutOut>>
      BY <2>6 DEF LoginCode, ConfirmDevice, CheckCode, TidyDevices, RemoveDevices, accountPast
    <3> QED BY <1>a, <2>0, <3>1 DEF RowsRightAt
  <2>7. CASE InsertAvatar(c)
    <3>1. UNCHANGED <<user, device, session, set, shutOut>> /\ (issued' = issued \/ Make("avatar"))
      BY <2>7 DEF InsertAvatar, accountPast
    <3>2. /\ issued' = [device |-> issued'.device, avatar |-> issued'.avatar, session |-> issued'.session]
          /\ issued'.device = issued.device /\ issued'.session = issued.session
      BY <1>a, <3>1, MakeIs DEF RowsRightAt
    <3> QED BY <1>a, <2>0, <3>1, <3>2 DEF RowsRightAt
  <2>8. CASE ExpireSessions(c)
    <3>1. UNCHANGED <<user, device, issued, set, shutOut>> /\ \E is : session' = Cut(session, is)
      BY <2>8 DEF ExpireSessions, accountPast
    <3>2. \A s \in DOMAIN session' : s \in DOMAIN session /\ session'[s] = session[s]
      BY <3>1 DEF Cut
    <3> QED BY <1>a, <2>0, <3>1, <3>2 DEF RowsRightAt
  <2>9. CASE DropAddress(c) \/ Demote(c) \/ Promote(c) \/ LoginAddress(c) \/ LoginDevice(c)
               \/ SetUpAgain(c) \/ SaveAvatar(c) \/ RemoveAvatar(c)
    <3>1. UNCHANGED <<user, device, session, issued, set, shutOut>>
      BY <2>9 DEF DropAddress, Demote, Promote, LoginAddress, LoginDevice, SetUpAgain, SaveAvatar,
                  RemoveAvatar, accountPast, accountRows
    <3> QED BY <1>a, <2>0, <3>1 DEF RowsRightAt
  <2> QED BY <1>2, <2>1, <2>2, <2>3, <2>4, <2>5, <2>6, <2>7, <2>8, <2>9 DEF Work
<1>3. CASE Break(c)
  BY <1>a, <1>3 DEF Break, accountRows, accountPast, RowsRightAt
<1> QED BY <1>1, <1>2, <1>3

LEMMA ShapeKept ==
    AccountsShape /\ [AccountsNext]_accountVars => AccountsShape'
<1> SUFFICES ASSUME AccountsShape, [AccountsNext]_accountVars PROVE AccountsShape'
  OBVIOUS
<1>1. ASSUME NEW c \in Clerks, AccountRequest(c) \/ Work(c) \/ Break(c)
      PROVE  AccountsShape'
  <2>1. RowsRightAt(asked)'
    BY <1>1, RowsStep
  <2>2. /\ asked' \in Nat /\ errand' = [d \in Clerks |-> errand'[d]]
        /\ \A d \in Clerks : ErrandRight(errand'[d], asked')
    BY <1>1, ErrandsStep
  <2> QED BY <2>1, <2>2 DEF AccountsShape, RowsRightAt, ErrandRight, UserRight
<1>2. CASE ConfirmEmail
  <2>1. /\ UNCHANGED <<device, session, issued, errand, asked, set, shutOut>>
        /\ user' = user \/ \E a : user' = {[u EXCEPT !.email = a] : u \in user}
    BY <1>2 DEF ConfirmEmail, accountPast
  <2>2. CASE user' = user
    BY <2>1, <2>2 DEF AccountsShape, ErrandRight, UserRight
  <2>3. CASE \E a : user' = {[u EXCEPT !.email = a] : u \in user}
    <3>1. PICK a : user' = {[u EXCEPT !.email = a] : u \in user}
      BY <2>3
    <3>2. \A u \in user : UserRight([u EXCEPT !.email = a], asked)
      <4> TAKE u \in user
      <4>1. PICK fs \in [Fields -> 0..asked] : u = [field |-> fs, email |-> u.email]
        BY DEF AccountsShape, UserRight
      <4>2. [u EXCEPT !.email = a] = [field |-> fs, email |-> a]
        BY <4>1
      <4> QED BY <4>2 DEF UserRight
    <3>3. user' = {} \/ \E u \in user' : user' = {u}
      <4>1. CASE user = {}
        BY <3>1, <4>1
      <4>2. CASE \E u \in user : user = {u}
        <5>1. PICK u \in user : user = {u}
          BY <4>2
        <5>2. user' = {[u EXCEPT !.email = a]}
          BY <3>1, <5>1
        <5> QED BY <5>2
      <4> QED BY <4>1, <4>2 DEF AccountsShape
    <3>4. \A u \in user' : UserRight(u, asked)
      BY <3>1, <3>2
    <3> QED BY <2>1, <3>3, <3>4 DEF AccountsShape, ErrandRight, UserRight
  <2> QED BY <2>1, <2>2, <2>3
<1>3. CASE UNCHANGED accountVars
  BY <1>3 DEF accountVars, AccountsShape, ErrandRight, UserRight
<1> QED BY <1>1, <1>2, <1>3 DEF AccountsNext, AccountRequest, Work

\* Each clerk's part of the account is one the account has.
LEMMA OnTopics == AccountsShape => \A c \in Clerks : errand[c].on \subseteq Topics
BY DEF AccountsShape, ErrandRight, OnOf, Topics

LEMMA ApartKept ==
    AccountsShape /\ Apart /\ [AccountsNext]_accountVars => Apart'
<1> SUFFICES ASSUME AccountsShape, Apart, [AccountsNext]_accountVars PROVE Apart'
  OBVIOUS
<1>1. ASSUME NEW c \in Clerks, AccountRequest(c)
      PROVE  Apart'
  <2>1. PICK next : Take(c, next)
    BY <1>1, RequestAsks DEF Asks
  <2>2. /\ errand'[c] = next /\ \A d \in Clerks : d # c => errand'[d] = errand[d]
    BY <2>1, OthersStand DEF AccountsShape, Take
  <2>3. unsettled \subseteq unsettled' /\ \A d \in Clerks : errand[d].on \cap next.on \subseteq unsettled'
    BY <2>1 DEF Take
  <2> QED BY <2>2, <2>3 DEF Apart
<1>2. ASSUME NEW c \in Clerks, Work(c)
      PROVE  Apart'
  <2>1. PICK next : Proceed(c, next) /\ next.on \subseteq errand[c].on
    BY <1>2, WorkWorks DEF Works
  <2>2. /\ errand'[c] = next /\ \A d \in Clerks : d # c => errand'[d] = errand[d]
    BY <2>1, OthersStand DEF AccountsShape, Proceed
  <2> QED BY <2>1, <2>2 DEF Apart, Proceed
<1>3. ASSUME NEW c \in Clerks, Break(c)
      PROVE  Apart'
  <2>1. /\ errand'[c] = NoErrand /\ \A d \in Clerks : d # c => errand'[d] = errand[d]
        /\ unsettled \subseteq unsettled'
    BY <1>3, OthersStand DEF AccountsShape, Break
  <2> QED BY <2>1 DEF Apart, NoErrand
<1>4. CASE ConfirmEmail \/ UNCHANGED accountVars
  BY <1>4 DEF ConfirmEmail, accountVars, Apart
<1> QED BY <1>1, <1>2, <1>3, <1>4 DEF AccountsNext, AccountRequest, Work

LEMMA GoneKept ==
    AccountsShape /\ Apart /\ Gone /\ [AccountsNext]_accountVars => Gone'
<1> SUFFICES ASSUME AccountsShape, Apart, Gone, [AccountsNext]_accountVars, user' = {}
             PROVE  \A d \in Clerks : errand'[d].on \subseteq unsettled'
  BY DEF Gone
<1>1. ASSUME NEW c \in Clerks, AccountRequest(c)
      PROVE  \A d \in Clerks : errand'[d].on \subseteq unsettled'
  <2>1. PICK next : Take(c, next) /\ user' = user /\ (next.on # {} => user # {})
    BY <1>1, RequestAsks DEF Asks
  <2>2. /\ errand'[c] = next /\ \A d \in Clerks : d # c => errand'[d] = errand[d]
    BY <2>1, OthersStand DEF AccountsShape, Take
  <2> QED BY <2>1, <2>2 DEF Gone, Take
<1>2. ASSUME NEW c \in Clerks, Work(c)
      PROVE  \A d \in Clerks : errand'[d].on \subseteq unsettled'
  <2>1. PICK next : Proceed(c, next) /\ next.on \subseteq errand[c].on
    BY <1>2, WorkWorks DEF Works
  <2>2. /\ errand'[c] = next /\ \A d \in Clerks : d # c => errand'[d] = errand[d]
        /\ unsettled' = unsettled
    BY <2>1, OthersStand DEF AccountsShape, Proceed
  <2>3. CASE user = {}
    BY <2>1, <2>2, <2>3 DEF Gone
  <2>4. CASE RemoveUser(c)
    <3>1. errand[c].on = Topics
      BY <2>4 DEF RemoveUser, AccountsShape, ErrandRight, OnOf
    <3>2. errand'[c] = NoErrand
      BY <2>4, OthersStand DEF RemoveUser, Finish, Proceed, AccountsShape
    <3>3. \A d \in Clerks : d # c => errand[d].on \subseteq unsettled
      BY <3>1, OnTopics DEF Apart
    <3> QED BY <2>2, <3>2, <3>3 DEF NoErrand
  <2>5. CASE user # {} /\ ~RemoveUser(c)
    <3>1. user' = user \/ \E x : user' = {x} \/ \E a : user' = {[u EXCEPT !.email = a] : u \in user}
      BY <1>2, <2>5 DEF Work, WriteUser, Rehash, DropAddress, Demote, Promote, WriteEmail, LoginAddress,
         LoginDevice, LoginCode, OpenSession, SetUpAgain, CreateDevice, ConfirmDevice, TidyDevices,
         CheckCode, RemoveDevices, ExpireSessions, InsertAvatar, SaveAvatar, RemoveAvatar, accountRows
    <3> QED BY <2>5, <3>1
  <2> QED BY <2>3, <2>4, <2>5
<1>3. ASSUME NEW c \in Clerks, Break(c)
      PROVE  \A d \in Clerks : errand'[d].on \subseteq unsettled'
  <2>1. /\ errand'[c] = NoErrand /\ \A d \in Clerks : d # c => errand'[d] = errand[d]
        /\ unsettled \subseteq unsettled' /\ user' = user
    BY <1>3, OthersStand DEF AccountsShape, Break, accountRows
  <2> QED BY <2>1 DEF Gone, NoErrand
<1>4. CASE ConfirmEmail \/ UNCHANGED accountVars
  <2>1. errand' = errand /\ unsettled' = unsettled /\ (user # {} => user' # {})
    <3>1. CASE ConfirmEmail
      <4>1. /\ errand' = errand /\ unsettled' = unsettled
            /\ user' = user \/ \E a : user' = {[u EXCEPT !.email = a] : u \in user}
        BY <3>1 DEF ConfirmEmail
      <4> QED BY <4>1
    <3>2. CASE UNCHANGED accountVars
      BY <3>2 DEF accountVars
    <3> QED BY <1>4, <3>1, <3>2
  <2> QED BY <2>1 DEF Gone
<1> QED BY <1>1, <1>2, <1>3, <1>4 DEF AccountsNext, AccountRequest, Work

\* Who is at work on a settled part finds the user.
LEMMA AtWork ==
    ASSUME AccountsShape, Apart, Gone, NEW c \in Clerks, NEW x \in errand[c].on, x \notin unsettled
    PROVE  /\ user # {} /\ \E u \in user : user = {u}
           /\ \A d \in Clerks : d # c => x \notin errand[d].on
BY DEF AccountsShape, Apart, Gone

-----------------------------------------------------------------------------
(* Addresses.                                                              *)

\* What one row of an address is, with its marks changed.
LEMMA MarksIs ==
    ASSUME NEW r, NEW p, NEW v, r = [primary |-> r.primary, verified |-> r.verified]
    PROVE  /\ [r EXCEPT !.primary = p] = [primary |-> p, verified |-> r.verified]
           /\ [[r EXCEPT !.verified = v] EXCEPT !.primary = p] = [primary |-> p, verified |-> v]
<1>1. PICK q : q = r.primary
  OBVIOUS
<1>2. PICK w : w = r.verified
  OBVIOUS
<1>3. r = [primary |-> q, verified |-> w]
  BY <1>1, <1>2
<1>4. [r EXCEPT !.primary = p] = [primary |-> p, verified |-> w]
  BY <1>3
<1>5. [r EXCEPT !.verified = v] = [primary |-> q, verified |-> v]
  BY <1>3
<1>6. [[r EXCEPT !.verified = v] EXCEPT !.primary = p] = [primary |-> p, verified |-> v]
  <2>1. PICK n : n = [r EXCEPT !.verified = v]
    OBVIOUS
  <2>2. n = [primary |-> q, verified |-> v]
    BY <1>5, <2>1
  <2>3. [n EXCEPT !.primary = p] = [primary |-> p, verified |-> v]
    BY <2>2
  <2> QED BY <2>1, <2>3, Zenon
<1> QED BY <1>2, <1>4, <1>6

LEMMA MarksRight ==
    ASSUME NEW p \in BOOLEAN, NEW v, p => v, NEW r, r = [primary |-> p, verified |-> v]
    PROVE  /\ r = [primary |-> r.primary, verified |-> r.verified]
           /\ r.primary = p /\ r.verified = v
           /\ r.primary \in BOOLEAN /\ (r.primary => r.verified)
<1>1. r.primary = p
  OBVIOUS
<1>2. r.verified = v
  OBVIOUS
<1>3. r = [primary |-> r.primary, verified |-> r.verified]
  BY <1>1, <1>2, Zenon
<1>4. r.primary \in BOOLEAN
  BY <1>1, Zenon
<1>5. r.primary => r.verified
  BY <1>1, <1>2, Zenon
<1> QED BY <1>1, <1>2, <1>3, <1>4, <1>5, Zenon

LEMMA AddressesKept ==
    AddressesRight /\ AccountsShape /\ [AccountsNext]_accountVars => AddressesRight'
<1> SUFFICES ASSUME AddressesRight, AccountsShape, [AccountsNext]_accountVars PROVE AddressesRight'
  OBVIOUS
<1>a. ASSUME NEW a, NEW marks \in [primary : {FALSE}, verified : {FALSE}] \cup [primary : {TRUE}, verified : {TRUE}],
             address' = Put(address, a, marks)
      PROVE  AddressesRight'
  <2>1. /\ DOMAIN address' = DOMAIN address \cup {a} /\ address'[a] = marks
        /\ \A x \in DOMAIN address : x # a => address'[x] = address[x]
    BY <1>a DEF Put
  <2>2. marks = [primary |-> marks.primary, verified |-> marks.verified] /\ marks.primary \in BOOLEAN /\ (marks.primary => marks.verified)
    OBVIOUS
  <2> QED BY <2>1, <2>2 DEF AddressesRight
<1>b. address' = address => AddressesRight'
  BY DEF AddressesRight
<1>1. ASSUME NEW c \in Clerks, AccountRequest(c)
      PROVE  AddressesRight'
  <2>1. \/ address' = address
        \/ \E a : address' = Put(address, a, [primary |-> FALSE, verified |-> FALSE])
    BY <1>1, RequestAsks DEF Asks
  <2> QED BY <2>1, <1>a, <1>b
<1>2. ASSUME NEW c \in Clerks, Work(c)
      PROVE  AddressesRight'
  <2>1. CASE RemoveUser(c)
    BY <2>1 DEF RemoveUser, AddressesRight
  <2>2. CASE DropAddress(c)
    BY <2>2 DEF DropAddress, Cut, AddressesRight
  <2>3. CASE Demote(c)
    <3>1. address' = [a \in DOMAIN address |-> [address[a] EXCEPT !.primary = FALSE]]
      BY <2>3 DEF Demote
    <3>2. DOMAIN address' = DOMAIN address
      BY <3>1
    <3>3. ASSUME NEW a \in DOMAIN address
          PROVE  /\ address'[a] = [primary |-> address'[a].primary, verified |-> address'[a].verified]
                 /\ address'[a].primary \in BOOLEAN
                 /\ address'[a].primary => address'[a].verified
      <4>1. address[a] = [primary |-> address[a].primary, verified |-> address[a].verified]
        BY DEF AddressesRight
      <4>2. PICK p \in BOOLEAN : p = FALSE
        OBVIOUS
      <4>3. address'[a] = [address[a] EXCEPT !.primary = p]
        BY <3>1, <4>2
      <4>4. address'[a] = [primary |-> p, verified |-> address[a].verified]
        BY <4>1, <4>3, MarksIs
      <4>5. p => address[a].verified
        BY <4>2
      <4> QED BY <4>4, <4>5, MarksRight
    <3> QED BY <3>2, <3>3 DEF AddressesRight
  <2>4. CASE Promote(c) \/ LoginAddress(c)
    <3>1. address' = address \/ \E a : address' = Put(address, a, [primary |-> TRUE, verified |-> TRUE])
      BY <2>4 DEF Promote, LoginAddress
    <3> QED BY <3>1, <1>a, <1>b
  <2>5. CASE ~(RemoveUser(c) \/ DropAddress(c) \/ Demote(c) \/ Promote(c) \/ LoginAddress(c))
    <3>1. address' = address
      BY <1>2, <2>5 DEF Work, WriteUser, Rehash, WriteEmail, LoginDevice, LoginCode, OpenSession, SetUpAgain,
         CreateDevice, ConfirmDevice, TidyDevices, CheckCode, RemoveDevices, ExpireSessions, InsertAvatar,
         SaveAvatar, RemoveAvatar, accountRows
    <3> QED BY <3>1, <1>b
  <2> QED BY <2>1, <2>2, <2>3, <2>4, <2>5
<1>3. CASE ConfirmEmail
  <2>1. PICK a \in DOMAIN address :
          address' = [address EXCEPT ![a].verified = TRUE, ![a].primary = Primaries = {}]
    BY <1>3 DEF ConfirmEmail
  <2>2. /\ DOMAIN address' = DOMAIN address /\ \A x \in DOMAIN address : x # a => address'[x] = address[x]
    BY <2>1
  <2>0. PICK b \in BOOLEAN : b = (Primaries = {})
    OBVIOUS
  <2>v. PICK v \in BOOLEAN : v = TRUE
    OBVIOUS
  <2>3. address[a] = [primary |-> address[a].primary, verified |-> address[a].verified]
    BY DEF AddressesRight
  <2>4. address'[a] = [[address[a] EXCEPT !.verified = v] EXCEPT !.primary = b]
    BY <2>0, <2>v, <2>1
  <2>5. address'[a] = [primary |-> b, verified |-> v]
    BY <2>3, <2>4, MarksIs
  <2>6. /\ address'[a] = [primary |-> address'[a].primary, verified |-> address'[a].verified]
        /\ address'[a].primary \in BOOLEAN
        /\ address'[a].primary => address'[a].verified
    BY <2>5, <2>v, MarksRight
  <2> QED BY <2>2, <2>6 DEF AddressesRight
<1>4. ASSUME NEW c \in Clerks, Break(c)
      PROVE  AddressesRight'
  BY <1>4, <1>b DEF Break, accountRows
<1>5. CASE UNCHANGED accountVars
  BY <1>5, <1>b DEF accountVars
<1> QED BY <1>1, <1>2, <1>3, <1>4, <1>5 DEF AccountsNext, AccountRequest, Work

-----------------------------------------------------------------------------
(* The row of the user.                                                    *)

\* What is unsettled stays so; one request moves at a time, to a place it knows.
LEMMA Grows ==
    AccountsShape /\ [AccountsNext]_accountVars => unsettled \subseteq unsettled'
<1> SUFFICES ASSUME AccountsShape, [AccountsNext]_accountVars PROVE unsettled \subseteq unsettled'
  OBVIOUS
<1>1. ASSUME NEW c \in Clerks, AccountRequest(c) \/ Work(c) \/ Break(c)
      PROVE  unsettled \subseteq unsettled'
  <2>1. AccountRequest(c) => unsettled \subseteq unsettled'
    BY RequestAsks DEF Asks, Take
  <2>2. Work(c) => unsettled \subseteq unsettled'
    BY WorkWorks DEF Works, Proceed
  <2> QED BY <1>1, <2>1, <2>2 DEF Break
<1>2. CASE ConfirmEmail \/ UNCHANGED accountVars
  BY <1>2 DEF ConfirmEmail, accountVars
<1> QED BY <1>1, <1>2 DEF AccountsNext, AccountRequest, Work

LEMMA RequestStep ==
    ASSUME AccountsShape, NEW c \in Clerks, NEW next, Asks(c, next)
    PROVE  errand'[c] = next /\ \A d \in Clerks : d # c => errand'[d] = errand[d]
BY OthersStand DEF AccountsShape, Asks, Take

LEMMA WorkStep ==
    ASSUME AccountsShape, NEW c \in Clerks, NEW next, Works(c, next)
    PROVE  errand'[c] = next /\ unsettled' = unsettled
           /\ \A d \in Clerks : d # c => errand'[d] = errand[d]
BY OthersStand DEF AccountsShape, Works, Proceed

LEMMA BreakStep ==
    ASSUME AccountsShape, NEW c \in Clerks, Break(c)
    PROVE  /\ errand'[c] = NoErrand /\ NoErrand.at = "none"
           /\ \A d \in Clerks : d # c => errand'[d] = errand[d]
           /\ UNCHANGED <<user, address, device, avatar, session, set, guarded, shutOut>>
BY OthersStand DEF AccountsShape, Break, NoErrand, accountRows, accountPast

\* The part of the account that goes with a place.
LEMMA OnPlace ==
    AccountsShape => \A c \in Clerks :
        /\ errand[c].at \in {"row", "rehash", "demote", "promote", "email"} => "row" \in errand[c].on
        /\ errand[c].at \in {"drop", "demote", "promote", "email", "address", "device", "code", "open"}
              => "mail" \in errand[c].on
        /\ errand[c].at \in {"address", "device", "code", "open", "setup", "create", "confirm", "tidy",
                             "check", "disable", "expire"} => "devices" \in errand[c].on
        /\ errand[c].at \in {"avatar", "save", "unshow"} => "avatar" \in errand[c].on
        /\ errand[c].at = "delete" => errand[c].on = Topics
BY DEF AccountsShape, ErrandRight, OnOf

LEMMA EmailIs ==
    ASSUME NEW u, NEW most, UserRight(u, most), NEW a
    PROVE  [u EXCEPT !.email = a].field = u.field /\ [u EXCEPT !.email = a].email = a
<1>1. PICK fs : fs = u.field
  OBVIOUS
<1>2. PICK mail : mail = u.email
  OBVIOUS
<1>3. u = [field |-> fs, email |-> mail]
  BY <1>1, <1>2 DEF UserRight
<1> QED BY <1>1, <1>3

\* What WriteUser writes.
LEMMA FieldIs ==
    ASSUME NEW u, NEW most, UserRight(u, most), NEW f \in Fields, NEW v
    PROVE  /\ [u EXCEPT !.field[f] = v].field = [u.field EXCEPT ![f] = v]
           /\ [u EXCEPT !.field[f] = v].email = u.email
<1>1. PICK fs : fs = u.field
  OBVIOUS
<1>2. PICK mail : mail = u.email
  OBVIOUS
<1>3. u = [field |-> fs, email |-> mail]
  BY <1>1, <1>2 DEF UserRight
<1>4. [u EXCEPT !.field[f] = v] = [field |-> [fs EXCEPT ![f] = v], email |-> mail]
  BY <1>3
<1> QED BY <1>1, <1>2, <1>4

LEMMA WriteUserIs ==
    ASSUME AccountsShape, NEW c \in Clerks, WriteUser(c)
    PROVE  /\ errand[c].at = "row" /\ errand[c].field \in Fields
           /\ \A u \in user' : /\ u.field = [errand[c].row.field EXCEPT ![errand[c].field] = errand[c].value]
                               /\ u.email = errand[c].row.email
           /\ set' = [set EXCEPT ![errand[c].field] = errand[c].value]
<1>1. errand[c].at = "row" /\ UserRight(errand[c].row, asked) /\ errand[c].field \in Fields
  BY DEF WriteUser, AccountsShape, ErrandRight
<1>2. /\ user' = {[errand[c].row EXCEPT !.field[errand[c].field] = errand[c].value]}
      /\ set' = [set EXCEPT ![errand[c].field] = errand[c].value]
  BY DEF WriteUser
<1> QED BY <1>1, <1>2, FieldIs

LEMMA RowStays ==
    AccountsShape /\ Apart /\ Gone /\ RowKept /\ [AccountsNext]_accountVars => RowKept'
<1> SUFFICES ASSUME AccountsShape, Apart, Gone, RowKept, [AccountsNext]_accountVars,
                    "row" \notin unsettled', NEW u \in user'
             PROVE  /\ u.field = set'
                    /\ \A d \in Clerks : errand'[d].at = "row" => errand'[d].row.field = u.field
  BY DEF RowKept
<1>a. /\ "row" \notin unsettled
      /\ \A w \in user : /\ w.field = set
                         /\ \A d \in Clerks : errand[d].at = "row" => errand[d].row.field = w.field
  BY Grows DEF RowKept
<1>b. \A w \in user : UserRight(w, asked)
  BY DEF AccountsShape
<1>c. ASSUME NEW a, user' = {[w EXCEPT !.email = a] : w \in user}
      PROVE  \E w \in user : u.field = w.field
  <2>1. PICK w \in user : u = [w EXCEPT !.email = a]
    BY <1>c
  <2>2. u.field = w.field
    BY <1>b, <2>1, EmailIs
  <2> QED BY <2>2
<1>1. ASSUME NEW c \in Clerks, AccountRequest(c)
      PROVE  /\ u.field = set'
             /\ \A d \in Clerks : errand'[d].at = "row" => errand'[d].row.field = u.field
  <2>1. PICK next : Asks(c, next)
    BY <1>1, RequestAsks
  <2>2. errand'[c] = next /\ \A d \in Clerks : d # c => errand'[d] = errand[d]
    BY <2>1, RequestStep
  <2>3. user' = user /\ set' = set /\ (next.at = "row" => next.row \in user)
    BY <2>1 DEF Asks
  <2> QED BY <1>a, <2>2, <2>3
<1>2. ASSUME NEW c \in Clerks, Work(c)
      PROVE  /\ u.field = set'
             /\ \A d \in Clerks : errand'[d].at = "row" => errand'[d].row.field = u.field
  <2>1. PICK next : Works(c, next)
    BY <1>2, WorkWorks
  <2>2. errand'[c] = next /\ next.at # "row" /\ \A d \in Clerks : d # c => errand'[d] = errand[d]
    BY <2>1, WorkStep DEF Works
  <2>3. CASE WriteUser(c)
    <3>1. /\ errand[c].at = "row" /\ errand[c].field \in Fields
          /\ u.field = [errand[c].row.field EXCEPT ![errand[c].field] = errand[c].value]
          /\ set' = [set EXCEPT ![errand[c].field] = errand[c].value]
      BY <2>3, WriteUserIs
    <3>2. "row" \in errand[c].on
      BY <3>1, OnPlace
    <3>3. user # {} /\ \A d \in Clerks : d # c => "row" \notin errand[d].on
      BY <1>a, <3>2, AtWork
    <3>4. errand[c].row.field = set
      BY <1>a, <3>1, <3>3
    <3>5. \A d \in Clerks : errand'[d].at # "row"
      BY <2>2, <3>3, OnPlace
    <3> QED BY <3>1, <3>4, <3>5
  <2>4. CASE ~WriteUser(c)
    <3>1. /\ set' = set
          /\ user' = user \/ user' = {} \/ \E a : user' = {[w EXCEPT !.email = a] : w \in user}
      BY <1>2, <2>4 DEF Work, Rehash, RemoveUser, DropAddress, Demote, Promote, WriteEmail, LoginAddress,
         LoginDevice, LoginCode, OpenSession, SetUpAgain, CreateDevice, ConfirmDevice, TidyDevices,
         CheckCode, RemoveDevices, ExpireSessions, InsertAvatar, SaveAvatar, RemoveAvatar, accountRows, accountPast
    <3>2. \E w \in user : u.field = w.field
      BY <1>c, <3>1
    <3> QED BY <1>a, <2>2, <3>1, <3>2
  <2> QED BY <2>3, <2>4
<1>3. ASSUME NEW c \in Clerks, Break(c)
      PROVE  /\ u.field = set'
             /\ \A d \in Clerks : errand'[d].at = "row" => errand'[d].row.field = u.field
  BY <1>a, <1>3, BreakStep
<1>4. CASE ConfirmEmail
  <2>1. /\ errand' = errand /\ set' = set
        /\ user' = user \/ \E a : user' = {[w EXCEPT !.email = a] : w \in user}
    BY <1>4 DEF ConfirmEmail, accountPast
  <2>2. \E w \in user : u.field = w.field
    BY <1>c, <2>1
  <2> QED BY <1>a, <2>1, <2>2
<1>5. CASE UNCHANGED accountVars
  BY <1>a, <1>5 DEF accountVars
<1> QED BY <1>1, <1>2, <1>3, <1>4, <1>5 DEF AccountsNext, AccountRequest, Work

-----------------------------------------------------------------------------
(* Passwords and sessions.                                                 *)

\* A new session has a new number; the others are those there were.
LEMMA SessionsStep ==
    ASSUME AccountsShape, NEW c \in Clerks, Work(c)
    PROVE  \A s \in DOMAIN session' :
             \/ s \in DOMAIN session /\ session'[s] = session[s]
             \/ /\ s \notin 1..issued.session
                /\ \/ errand[c].at = "rehash" /\ session'[s] = errand[c].value
                   \/ errand[c].at = "open" /\ session'[s] = errand[c].row.field["password"]
<1>1. CASE Rehash(c)
  BY <1>1 DEF Rehash, Put, Cut, NextOf, AccountsShape
<1>2. CASE OpenSession(c)
  BY <1>2 DEF OpenSession, Put, NextOf, AccountsShape
<1>3. CASE ExpireSessions(c)
  BY <1>3 DEF ExpireSessions, Cut
<1>4. CASE ~(Rehash(c) \/ OpenSession(c) \/ ExpireSessions(c))
  <2>1. session' = session
    BY <1>4 DEF Work, WriteUser, RemoveUser, DropAddress, Demote, Promote, WriteEmail, LoginAddress,
         LoginDevice, LoginCode, SetUpAgain, CreateDevice, ConfirmDevice, TidyDevices,
         CheckCode, RemoveDevices, InsertAvatar, SaveAvatar, RemoveAvatar, accountRows
  <2> QED BY <2>1
<1> QED BY <1>1, <1>2, <1>3, <1>4

\* The requests whose passwords are known, ...
KnowsRow(d) == errand[d].at \in {"row", "address", "device", "code", "open"}

\* ... and what it is that one password is known nowhere.
FreshFor(c, v) ==
    /\ \A u \in user : u.field["password"] # v
    /\ \A s \in DOMAIN session : session[s] # v
    /\ \A d \in Clerks :
        /\ KnowsRow(d) => errand[d].row.field["password"] # v
        /\ errand[d].at = "row" /\ d # c => errand[d].value # v
        /\ errand[d].at = "rehash" => errand[d].value # v

LEMMA FreshIs ==
    FreshPassword <=> \A c \in Clerks : errand[c].at = "row" /\ errand[c].field = "password" =>
                 FreshFor(c, errand[c].value)
BY DEF FreshPassword, FreshFor, KnowsRow

\* Numbers up to the last request are known at most.
LEMMA NewIsFresh ==
    ASSUME AccountsShape
    PROVE  \A c \in Clerks : FreshFor(c, asked + 1)
<1>1. asked \in Nat /\ \A v \in 0..asked : v # asked + 1
  BY DEF AccountsShape
<1>2. \A u : UserRight(u, asked) => u.field["password"] \in 0..asked
  BY DEF UserRight, Fields
<1>3. \A u \in user : u.field["password"] # asked + 1
  BY <1>1, <1>2 DEF AccountsShape
<1>4. \A s \in DOMAIN session : session[s] # asked + 1
  BY <1>1 DEF AccountsShape
<1>5. ASSUME NEW d \in Clerks
      PROVE  /\ KnowsRow(d) => errand[d].row.field["password"] # asked + 1
             /\ errand[d].at \in {"row", "rehash"} => errand[d].value # asked + 1
  <2>1. ErrandRight(errand[d], asked)
    BY DEF AccountsShape
  <2>2. KnowsRow(d) => UserRight(errand[d].row, asked)
    BY <2>1 DEF KnowsRow, ErrandRight
  <2>3. errand[d].at \in {"row", "rehash"} => errand[d].value \in 0..asked
    BY <2>1 DEF ErrandRight
  <2> QED BY <1>1, <1>2, <2>2, <2>3
<1> QED BY <1>3, <1>4, <1>5 DEF FreshFor

LEMMA FreshStays ==
    AccountsShape /\ FreshPassword /\ [AccountsNext]_accountVars => FreshPassword'
<1> SUFFICES ASSUME AccountsShape, FreshPassword, [AccountsNext]_accountVars,
                    NEW k \in Clerks, NEW v,
                    errand'[k].at = "row", errand'[k].field = "password", v = errand'[k].value
             PROVE  /\ \A u \in user' : u.field["password"] # v
                    /\ \A s \in DOMAIN session' : session'[s] # v
                    /\ \A d \in Clerks :
                        /\ KnowsRow(d)' => errand'[d].row.field["password"] # v
                        /\ errand'[d].at = "row" /\ d # k => errand'[d].value # v
                        /\ errand'[d].at = "rehash" => errand'[d].value # v
  BY DEF FreshPassword, KnowsRow
<1>b. asked \in Nat /\ \A w \in user : UserRight(w, asked)
  BY DEF AccountsShape
<1>d. errand[k].at = "row" => errand[k].value \in 0..asked
  BY DEF AccountsShape, ErrandRight
<1>c. ASSUME FreshFor(k, v), NEW a, user' = {[w EXCEPT !.email = a] : w \in user}
      PROVE  \A u \in user' : u.field["password"] # v
  <2> TAKE u \in user'
  <2>1. PICK w \in user : u = [w EXCEPT !.email = a]
    BY <1>c
  <2>2. u.field = w.field
    BY <1>b, <2>1, EmailIs
  <2> QED BY <1>c, <2>2 DEF FreshFor
<1>e. ASSUME errand'[k] = errand[k] PROVE FreshFor(k, v)
  BY <1>e, FreshIs
<1>1. ASSUME NEW c \in Clerks, AccountRequest(c)
      PROVE  /\ \A u \in user' : u.field["password"] # v
             /\ \A s \in DOMAIN session' : session'[s] # v
             /\ \A d \in Clerks :
                 /\ KnowsRow(d)' => errand'[d].row.field["password"] # v
                 /\ errand'[d].at = "row" /\ d # k => errand'[d].value # v
                 /\ errand'[d].at = "rehash" => errand'[d].value # v
  <2>1. PICK next : Asks(c, next)
    BY <1>1, RequestAsks
  <2>2. errand'[c] = next /\ \A d \in Clerks : d # c => errand'[d] = errand[d]
    BY <2>1, RequestStep
  <2>3. /\ user' = user /\ (next.at \in {"row", "address"} => next.row \in user)
        /\ next.at = "row" => next.value = asked + 1
        /\ next.at \notin {"device", "code", "open", "rehash"}
    BY <2>1 DEF Asks
  <2>4. FreshFor(k, v)
    <3>1. CASE k = c
      BY <3>1, <2>2, <2>3, NewIsFresh
    <3>2. CASE k # c
      BY <3>2, <2>2, <1>e
    <3> QED BY <3>1, <3>2
  <2>5. \A s \in DOMAIN session' : s \in DOMAIN session /\ session'[s] = session[s]
    <3>1. CASE session' = session
      BY <3>1
    <3>2. CASE \E s : session' = Cut(session, {s})
      BY <3>2 DEF Cut
    <3> QED BY <2>1, <3>1, <3>2 DEF Asks
  <2>6. ASSUME NEW d \in Clerks
        PROVE  /\ KnowsRow(d)' => errand'[d].row.field["password"] # v
               /\ errand'[d].at = "row" /\ d # k => errand'[d].value # v
               /\ errand'[d].at = "rehash" => errand'[d].value # v
    <3>1. CASE d # c
      BY <2>2, <2>4, <3>1 DEF FreshFor, KnowsRow
    <3>2. CASE d = c
      <4>1. errand'[d] = next /\ (d # k => v = errand[k].value /\ errand[k].at = "row")
        BY <2>2, <3>2
      <4>2. next.at = "row" /\ d # k => next.value # v
        BY <1>b, <1>d, <2>3, <4>1
      <4>3. KnowsRow(d)' => next.row \in user
        BY <2>3, <4>1 DEF KnowsRow
      <4> QED BY <2>3, <2>4, <4>1, <4>2, <4>3 DEF FreshFor
    <3> QED BY <3>1, <3>2
  <2> QED BY <2>3, <2>4, <2>5, <2>6 DEF FreshFor
<1>2. ASSUME NEW c \in Clerks, Work(c)
      PROVE  /\ \A u \in user' : u.field["password"] # v
             /\ \A s \in DOMAIN session' : session'[s] # v
             /\ \A d \in Clerks :
                 /\ KnowsRow(d)' => errand'[d].row.field["password"] # v
                 /\ errand'[d].at = "row" /\ d # k => errand'[d].value # v
                 /\ errand'[d].at = "rehash" => errand'[d].value # v
  <2>1. PICK next : Works(c, next)
    BY <1>2, WorkWorks
  <2>2. errand'[c] = next /\ \A d \in Clerks : d # c => errand'[d] = errand[d]
    BY <2>1, WorkStep
  <2>3. /\ next.at \notin {"row", "address"}
        /\ next.at = "rehash" => errand[c].at = "row" /\ next.value = errand[c].value
        /\ next.at \in {"device", "code", "open"} =>
              errand[c].at \in {"address", "device", "code"} /\ next.row = errand[c].row
    BY <2>1 DEF Works
  <2>4. k # c /\ FreshFor(k, v)
    BY <2>2, <2>3, <1>e
  <2>5. \A s \in DOMAIN session' : session'[s] # v
    BY <1>2, <2>4, SessionsStep DEF FreshFor, KnowsRow
  <2>6. \A d \in Clerks :
          /\ KnowsRow(d)' => errand'[d].row.field["password"] # v
          /\ errand'[d].at = "row" /\ d # k => errand'[d].value # v
          /\ errand'[d].at = "rehash" => errand'[d].value # v
    BY <2>2, <2>3, <2>4 DEF FreshFor, KnowsRow
  <2>7. CASE WriteUser(c)
    <3>1. /\ errand[c].at = "row" /\ errand[c].field \in Fields
          /\ \A u \in user' : u.field = [errand[c].row.field EXCEPT ![errand[c].field] = errand[c].value]
      BY <2>7, WriteUserIs
    <3>2. errand[c].value # v /\ errand[c].row.field["password"] # v
      BY <2>4, <3>1 DEF FreshFor, KnowsRow
    <3>3. errand[c].row.field \in [Fields -> 0..asked] /\ "password" \in Fields
      BY <3>1 DEF AccountsShape, ErrandRight, UserRight, Fields
    <3>4. \A u \in user' : u.field["password"] # v
      BY <3>1, <3>2, <3>3
    <3> QED BY <2>5, <2>6, <3>4
  <2>8. CASE ~WriteUser(c)
    <3>1. user' = user \/ user' = {} \/ \E a : user' = {[w EXCEPT !.email = a] : w \in user}
      BY <1>2, <2>8 DEF Work, Rehash, RemoveUser, DropAddress, Demote, Promote, WriteEmail, LoginAddress,
         LoginDevice, LoginCode, OpenSession, SetUpAgain, CreateDevice, ConfirmDevice, TidyDevices,
         CheckCode, RemoveDevices, ExpireSessions, InsertAvatar, SaveAvatar, RemoveAvatar, accountRows
    <3>2. \A u \in user' : u.field["password"] # v
      BY <1>c, <2>4, <3>1 DEF FreshFor
    <3> QED BY <2>5, <2>6, <3>2
  <2> QED BY <2>7, <2>8
<1>3. ASSUME NEW c \in Clerks, Break(c)
      PROVE  /\ \A u \in user' : u.field["password"] # v
             /\ \A s \in DOMAIN session' : session'[s] # v
             /\ \A d \in Clerks :
                 /\ KnowsRow(d)' => errand'[d].row.field["password"] # v
                 /\ errand'[d].at = "row" /\ d # k => errand'[d].value # v
                 /\ errand'[d].at = "rehash" => errand'[d].value # v
  <2>1. /\ errand'[c] = NoErrand /\ NoErrand.at = "none"
        /\ \A d \in Clerks : d # c => errand'[d] = errand[d]
        /\ user' = user /\ session' = session
    BY <1>3, BreakStep
  <2>2. FreshFor(k, v)
    BY <2>1, <1>e
  <2> QED BY <2>1, <2>2 DEF FreshFor, KnowsRow
<1>4. CASE ConfirmEmail \/ UNCHANGED accountVars
  <2>1. /\ errand' = errand /\ session' = session
        /\ user' = user \/ \E a : user' = {[w EXCEPT !.email = a] : w \in user}
    <3>1. CASE ConfirmEmail
      <4>1. errand' = errand /\ session' = session
        BY <3>1 DEF ConfirmEmail
      <4>2. PICK a \in DOMAIN address :
              user' = IF Primaries = {} THEN {[w EXCEPT !.email = a] : w \in user} ELSE user
        BY <3>1 DEF ConfirmEmail
      <4> QED BY <4>1, <4>2
    <3>2. CASE UNCHANGED accountVars
      BY <3>2 DEF accountVars
    <3> QED BY <1>4, <3>1, <3>2
  <2>2. FreshFor(k, v)
    BY <2>1, <1>e
  <2>3. \A u \in user' : u.field["password"] # v
    BY <1>c, <2>1, <2>2 DEF FreshFor
  <2> QED BY <2>1, <2>2, <2>3 DEF FreshFor, KnowsRow
<1> QED BY <1>1, <1>2, <1>3, <1>4 DEF AccountsNext, AccountRequest, Work

LEMMA ShutOutStays ==
    AccountsShape /\ FreshPassword /\ ShutOutKept /\ [AccountsNext]_accountVars => ShutOutKept'
<1> SUFFICES ASSUME AccountsShape, FreshPassword, ShutOutKept, [AccountsNext]_accountVars,
                    NEW s \in shutOut', s \in DOMAIN session'
             PROVE  session'[s] # set'["password"]
  BY DEF ShutOutKept
<1>a. shutOut \subseteq 1..issued.session
  BY DEF AccountsShape
<1>1. ASSUME NEW c \in Clerks, AccountRequest(c)
      PROVE  session'[s] # set'["password"]
  <2>1. PICK next : Asks(c, next)
    BY <1>1, RequestAsks
  <2>2. s \in DOMAIN session /\ session'[s] = session[s]
    <3>1. CASE session' = session
      BY <3>1
    <3>2. CASE \E r : session' = Cut(session, {r})
      BY <3>2 DEF Cut
    <3> QED BY <2>1, <3>1, <3>2 DEF Asks
  <2> QED BY <2>1, <2>2 DEF Asks, ShutOutKept
<1>2. ASSUME NEW c \in Clerks, Work(c)
      PROVE  session'[s] # set'["password"]
  <2>1. CASE WriteUser(c)
    <3>1. /\ errand[c].at = "row" /\ errand[c].field \in Fields /\ session' = session
          /\ set' = [set EXCEPT ![errand[c].field] = errand[c].value]
          /\ errand[c].field # "password" => shutOut' = shutOut
      BY <2>1, WriteUserIs DEF WriteUser
    <3>2. set \in [Fields -> 0..asked] /\ "password" \in Fields
      BY DEF AccountsShape, Fields
    <3>3. CASE errand[c].field = "password"
      <4>1. session[s] # errand[c].value
        BY <3>1, <3>3 DEF FreshPassword
      <4> QED BY <3>1, <3>2, <3>3, <4>1
    <3>4. CASE errand[c].field # "password"
      BY <3>1, <3>2, <3>4 DEF ShutOutKept
    <3> QED BY <3>3, <3>4
  <2>2. CASE ~WriteUser(c)
    <3>1. set' = set /\ shutOut' = shutOut
      BY <1>2, <2>2 DEF Work, Rehash, RemoveUser, DropAddress, Demote, Promote, WriteEmail, LoginAddress,
         LoginDevice, LoginCode, OpenSession, SetUpAgain, CreateDevice, ConfirmDevice, TidyDevices,
         CheckCode, RemoveDevices, ExpireSessions, InsertAvatar, SaveAvatar, RemoveAvatar, accountPast
    <3>2. s \in DOMAIN session /\ session'[s] = session[s]
      BY <1>2, <1>a, <3>1, SessionsStep
    <3> QED BY <3>1, <3>2 DEF ShutOutKept
  <2> QED BY <2>1, <2>2
<1>3. ASSUME NEW c \in Clerks, Break(c)
      PROVE  session'[s] # set'["password"]
  BY <1>3, BreakStep DEF ShutOutKept
<1>4. CASE ConfirmEmail \/ UNCHANGED accountVars
  BY <1>4 DEF ConfirmEmail, accountVars, accountPast, ShutOutKept
<1> QED BY <1>1, <1>2, <1>3, <1>4 DEF AccountsNext, AccountRequest, Work

-----------------------------------------------------------------------------
(* The primary address.                                                    *)

LEMMA PrimariesPut ==
    ASSUME NEW a, NEW p \in BOOLEAN, NEW marks, marks.primary = p, address' = Put(address, a, marks)
    PROVE  Primaries' = (Primaries \ {a}) \cup (IF p THEN {a} ELSE {})
<1>1. /\ DOMAIN address' = DOMAIN address \cup {a} /\ address'[a] = marks
      /\ \A x \in DOMAIN address : x # a => address'[x] = address[x]
  BY DEF Put
<1> QED BY <1>1 DEF Primaries

\* What MailKept says of an address u names, when these clerks are at work.
MailRight(u) ==
    /\ \A c \in Clerks :
        /\ errand[c].at = "row" => errand[c].row.email = u.email
        /\ errand[c].at = "drop" => errand[c].address \notin Primaries
        /\ errand[c].at = "email" => Primaries = {errand[c].address}
    /\ \/ Primaries = {u.email}
       \/ Primaries = {} /\ \E c \in Clerks : errand[c].at = "promote"
       \/ \E c \in Clerks : errand[c].at = "email"

LEMMA MailRequest ==
    ASSUME AccountsShape, AddressesRight, NEW c \in Clerks, AccountRequest(c),
           NEW u, user = {u}, MailRight(u)
    PROVE  user' = {u} /\ \A w \in user' : w = u /\ MailRight(u)'
<1>1. PICK next : Asks(c, next)
  BY RequestAsks
<1>2. errand'[c] = next /\ \A d \in Clerks : d # c => errand'[d] = errand[d]
  BY <1>1, RequestStep
<1>3. errand[c].at = "none"
  BY <1>1 DEF Asks, Take, NoErrand
<1>4. Primaries' = Primaries
  <2>1. CASE address' = address
    BY <2>1 DEF Primaries
  <2>2. CASE \E a : /\ a \notin DOMAIN address
                    /\ address' = Put(address, a, [primary |-> FALSE, verified |-> FALSE])
    BY <2>2 DEF Primaries, Put
  <2> QED BY <1>1, <2>1, <2>2 DEF Asks
<1>5. /\ user' = user /\ next.at \notin {"promote", "email"}
      /\ next.at = "row" => next.row = u
      /\ next.at = "drop" => next.address \notin Primaries
  BY <1>1 DEF Asks, IsSecondary, Primaries
<1>6. MailRight(u)'
  <2>1. ASSUME NEW d \in Clerks
        PROVE  /\ errand'[d].at = "row" => errand'[d].row.email = u.email
               /\ errand'[d].at = "drop" => errand'[d].address \notin Primaries'
               /\ errand'[d].at = "email" => Primaries' = {errand'[d].address}
    BY <1>2, <1>4, <1>5 DEF MailRight
  <2>2. \A d \in Clerks : errand[d].at \in {"promote", "email"} => errand'[d] = errand[d]
    BY <1>2, <1>3
  <2> QED BY <2>1, <2>2, <1>4 DEF MailRight
<1> QED BY <1>5, <1>6

LEMMA MailWork ==
    ASSUME AccountsShape, AddressesRight, Apart, Gone, NEW c \in Clerks, Work(c),
           "row" \notin unsettled, "mail" \notin unsettled,
           NEW u, user = {u}, MailRight(u)
    PROVE  \A w \in user' : /\ \A d \in Clerks :
                                /\ errand'[d].at = "row" => errand'[d].row.email = w.email
                                /\ errand'[d].at = "drop" => errand'[d].address \notin Primaries'
                                /\ errand'[d].at = "email" => Primaries' = {errand'[d].address}
                            /\ \/ Primaries' = {w.email}
                               \/ Primaries' = {} /\ \E d \in Clerks : errand'[d].at = "promote"
                               \/ \E d \in Clerks : errand'[d].at = "email"
<1> TAKE w \in user'
<1>1. PICK next : Works(c, next)
  BY WorkWorks
<1>2. errand'[c] = next /\ \A d \in Clerks : d # c => errand'[d] = errand[d]
  BY <1>1, WorkStep
<1>3. /\ next.at \notin {"row", "drop"}
      /\ next.at = "promote" => errand[c].at = "demote"
      /\ next.at = "email" => errand[c].at = "promote" /\ next.address = errand[c].address
  BY <1>1 DEF Works
<1>4. \A d \in Clerks : /\ d # c /\ errand[c].at \in {"row", "demote", "promote", "email"} =>
                             errand[d].at \notin {"row", "demote", "promote", "email"}
                        /\ d # c /\ errand[c].at \in {"drop", "demote", "promote", "email", "address"} =>
                             errand[d].at \notin {"drop", "demote", "promote", "email"}
  BY OnPlace DEF Apart
<1>5. CASE WriteUser(c)
  <2>1. /\ errand[c].at = "row" /\ w.email = errand[c].row.email /\ address' = address
    BY <1>5, WriteUserIs DEF WriteUser
  <2>2. w.email = u.email /\ Primaries' = Primaries
    BY <2>1 DEF MailRight, Primaries
  <2>3. next.at \notin {"promote", "email"} /\ \A d \in Clerks : errand'[d].at \notin {"row", "promote", "email"}
    BY <1>2, <1>3, <1>4, <2>1
  <2>4. \A d \in Clerks : errand[d].at \notin {"promote", "email"}
    BY <1>4, <2>1
  <2>5. Primaries = {u.email}
    BY <2>4 DEF MailRight
  <2>6. \A d \in Clerks : errand'[d].at = "drop" => errand'[d].address \notin Primaries'
    BY <1>2, <1>3, <2>2 DEF MailRight
  <2> QED BY <2>2, <2>3, <2>5, <2>6
<1>6. CASE WriteEmail(c)
  <2>1. errand[c].at = "email" /\ w = [u EXCEPT !.email = errand[c].address] /\ address' = address
    BY <1>6 DEF WriteEmail
  <2>2. w.email = errand[c].address /\ Primaries' = Primaries
    BY <2>1, EmailIs DEF AccountsShape, Primaries
  <2>3. \A d \in Clerks : errand'[d].at \notin {"row", "drop", "email"}
    BY <1>2, <1>3, <1>4, <2>1
  <2>4. Primaries = {errand[c].address}
    BY <2>1 DEF MailRight
  <2> QED BY <2>2, <2>3, <2>4
<1>7. CASE Demote(c)
  <2>1. /\ errand[c].at = "demote" /\ user' = user /\ errand'[c].at = "promote"
        /\ address' = [a \in DOMAIN address |-> [address[a] EXCEPT !.primary = FALSE]]
    <3>1. errand' = [errand EXCEPT ![c] = [errand[c] EXCEPT !.at = "promote"]]
      BY <1>7 DEF Demote, To, Proceed
    <3>2. errand'[c] = [errand[c] EXCEPT !.at = "promote"]
      BY <3>1 DEF AccountsShape
    <3>3. errand'[c].at = "promote"
      BY <3>2, PlaceIs DEF AccountsShape, ErrandRight
    <3> QED BY <1>7, <3>3 DEF Demote
  <2>2. ASSUME NEW a \in DOMAIN address' PROVE a \notin Primaries'
    <3>1. address[a] = [primary |-> address[a].primary, verified |-> address[a].verified]
      BY <2>1 DEF AddressesRight
    <3>2. PICK p \in BOOLEAN : p = FALSE
      OBVIOUS
    <3>3. address'[a] = [address[a] EXCEPT !.primary = p]
      BY <2>1, <3>2
    <3>4. address'[a] = [primary |-> p, verified |-> address[a].verified]
      BY <3>1, <3>3, MarksIs
    <3>5. address'[a].primary = p
      BY <3>4
    <3> QED BY <3>2, <3>5 DEF Primaries
  <2>3. Primaries' = {}
    BY <2>2 DEF Primaries
  <2>4. \A d \in Clerks : errand'[d].at \notin {"row", "drop", "email"}
    BY <1>2, <1>3, <1>4, <2>1
  <2> QED BY <2>1, <2>3, <2>4
<1>8. CASE Promote(c)
  <2>1. errand[c].at = "promote" /\ user' = user
    BY <1>8 DEF Promote
  <2>2. \A d \in Clerks : d # c => errand'[d].at \notin {"row", "drop", "promote", "email"}
    BY <1>2, <1>4, <2>1
  <2>3. \A d \in Clerks : errand[d].at # "email"
    BY <1>4, <2>1
  <2>4. CASE Primaries \ {errand[c].address} = {}
    <3>1. /\ address' = Put(address, errand[c].address, [primary |-> TRUE, verified |-> TRUE])
          /\ errand' = [errand EXCEPT ![c] = [errand[c] EXCEPT !.at = "email"]]
      BY <1>8, <2>4 DEF Promote, To, Proceed
    <3>2. PICK p \in BOOLEAN : p = TRUE
      OBVIOUS
    <3>3. address' = Put(address, errand[c].address, [primary |-> p, verified |-> TRUE])
      BY <3>1, <3>2
    <3>4. [primary |-> p, verified |-> TRUE].primary = p
      OBVIOUS
    <3>5. Primaries' = (Primaries \ {errand[c].address}) \cup (IF p THEN {errand[c].address} ELSE {})
      BY <3>3, <3>4, PrimariesPut
    <3>6. Primaries' = {errand[c].address}
      BY <2>4, <3>2, <3>5
    <3>7. errand'[c].at = "email" /\ errand'[c].address = errand[c].address
      <4>1. errand'[c] = [errand[c] EXCEPT !.at = "email"]
        BY <3>1 DEF AccountsShape
      <4> QED BY <2>1, <4>1, PlaceIs DEF AccountsShape, ErrandRight
    <3> QED BY <2>2, <3>6, <3>7
  <2>5. CASE Primaries \ {errand[c].address} # {}
    <3>1. address' = address /\ errand' = [errand EXCEPT ![c] = NoErrand]
      BY <1>8, <2>5 DEF Promote, Finish, Proceed
    <3>2. errand'[c].at = "none"
      BY <3>1 DEF NoErrand, AccountsShape
    <3>3. Primaries' = Primaries /\ Primaries = {u.email}
      BY <2>3, <2>5, <3>1 DEF MailRight, Primaries
    <3> QED BY <2>1, <2>2, <3>2, <3>3
  <2> QED BY <2>4, <2>5
<1>9. CASE DropAddress(c)
  <2>1. errand[c].at = "drop" /\ user' = user /\ address' = Cut(address, {errand[c].address})
    BY <1>9 DEF DropAddress
  <2>2. Primaries' = Primaries
    <3>1. PICK a : a = errand[c].address
      OBVIOUS
    <3>2. a \notin Primaries /\ address' = Cut(address, {a})
      BY <2>1, <3>1 DEF MailRight
    <3> QED BY <3>2 DEF Cut, Primaries
  <2>3. next.at \notin {"promote", "email"}
    BY <1>3, <2>1
  <2>4. \A d \in Clerks : errand[d].at \in {"promote", "email"} => errand'[d] = errand[d]
    BY <1>2, <2>1
  <2> QED BY <1>2, <1>3, <2>1, <2>2, <2>3, <2>4 DEF MailRight
<1>10. CASE LoginAddress(c)
  <2>1. errand[c].at = "address" /\ user' = user
    BY <1>10 DEF LoginAddress
  <2>2. \A d \in Clerks : errand[d].at \notin {"promote", "email"}
    BY <1>4, <2>1
  <2>3. Primaries = {u.email}
    BY <2>2 DEF MailRight
  <2>4. Primaries' = Primaries
    BY <1>10, <2>3 DEF LoginAddress, Primaries
  <2>5. next.at \notin {"promote", "email"}
    BY <1>3, <2>1
  <2> QED BY <1>2, <1>3, <2>1, <2>3, <2>4, <2>5 DEF MailRight
<1>11. CASE RemoveUser(c)
  BY <1>11 DEF RemoveUser
<1>12. CASE ~(WriteUser(c) \/ WriteEmail(c) \/ Demote(c) \/ Promote(c) \/ DropAddress(c)
               \/ LoginAddress(c) \/ RemoveUser(c))
  <2>1. /\ user' = user /\ address' = address
        /\ errand[c].at \notin {"row", "demote", "promote", "email", "drop"}
    BY <1>12 DEF Work, Rehash, LoginDevice, LoginCode, OpenSession, SetUpAgain, CreateDevice, ConfirmDevice,
       TidyDevices, CheckCode, RemoveDevices, ExpireSessions, InsertAvatar, SaveAvatar, RemoveAvatar, accountRows
  <2>2. Primaries' = Primaries
    BY <2>1 DEF Primaries
  <2>3. next.at \notin {"promote", "email"}
    BY <1>3, <2>1
  <2>4. \A d \in Clerks : errand[d].at \in {"promote", "email"} => errand'[d] = errand[d]
    BY <1>2, <2>1
  <2> QED BY <1>2, <1>3, <2>1, <2>2, <2>3, <2>4 DEF MailRight
<1> QED BY <1>5, <1>6, <1>7, <1>8, <1>9, <1>10, <1>11, <1>12

LEMMA MailConfirm ==
    ASSUME AccountsShape, AddressesRight, Apart, ConfirmEmail,
           "row" \notin unsettled, "mail" \notin unsettled,
           NEW u, user = {u}, MailRight(u)
    PROVE  \A w \in user' : /\ \A d \in Clerks :
                                /\ errand'[d].at = "row" => errand'[d].row.email = w.email
                                /\ errand'[d].at = "drop" => errand'[d].address \notin Primaries'
                                /\ errand'[d].at = "email" => Primaries' = {errand'[d].address}
                            /\ \/ Primaries' = {w.email}
                               \/ Primaries' = {} /\ \E d \in Clerks : errand'[d].at = "promote"
                               \/ \E d \in Clerks : errand'[d].at = "email"
<1> TAKE w \in user'
<1>1. PICK a \in DOMAIN address :
        /\ ~address[a].verified
        /\ address' = [address EXCEPT ![a].verified = TRUE, ![a].primary = Primaries = {}]
        /\ user' = IF Primaries = {} THEN {[x EXCEPT !.email = a] : x \in user} ELSE user
        /\ errand' = errand
  BY DEF ConfirmEmail
<1>2. address[a] = [primary |-> address[a].primary, verified |-> address[a].verified] /\ ~address[a].primary
  BY <1>1 DEF AddressesRight
<1>3. PICK b \in BOOLEAN : b = (Primaries = {})
  OBVIOUS
<1>4. PICK v : v = TRUE
  OBVIOUS
<1>5. address'[a] = [[address[a] EXCEPT !.verified = v] EXCEPT !.primary = b]
  BY <1>1, <1>3, <1>4
<1>6. address'[a] = [primary |-> b, verified |-> v]
  BY <1>2, <1>5, MarksIs
<1>7. address'[a].primary = b
  BY <1>6
<1>8. DOMAIN address' = DOMAIN address /\ \A x \in DOMAIN address : x # a => address'[x] = address[x]
  BY <1>1
<1>9. CASE Primaries = {}
  <2>1. Primaries' = {a}
    BY <1>3, <1>7, <1>8, <1>9 DEF Primaries
  <2>2. w = [u EXCEPT !.email = a] /\ UserRight(u, asked)
    BY <1>1, <1>9 DEF AccountsShape
  <2>3. w.email = a
    BY <2>2, EmailIs
  <2>4. PICK d \in Clerks : errand[d].at = "promote"
    BY <1>9 DEF MailRight
  <2>5. \A c \in Clerks : errand[c].at \notin {"row", "drop", "email"}
    BY <2>4, OnPlace DEF Apart
  <2> QED BY <1>1, <2>1, <2>3, <2>5
<1>10. CASE Primaries # {}
  <2>1. Primaries' = Primaries
    BY <1>2, <1>3, <1>7, <1>8, <1>10 DEF Primaries
  <2> QED BY <1>1, <1>10, <2>1 DEF MailRight
<1> QED BY <1>9, <1>10

LEMMA MailStays ==
    AccountsShape /\ AddressesRight /\ Apart /\ Gone /\ MailKept /\ [AccountsNext]_accountVars => MailKept'
<1> SUFFICES ASSUME AccountsShape, AddressesRight, Apart, Gone, MailKept, [AccountsNext]_accountVars,
                    "row" \notin unsettled', "mail" \notin unsettled', NEW w \in user'
             PROVE  /\ \A d \in Clerks :
                        /\ errand'[d].at = "row" => errand'[d].row.email = w.email
                        /\ errand'[d].at = "drop" => errand'[d].address \notin Primaries'
                        /\ errand'[d].at = "email" => Primaries' = {errand'[d].address}
                    /\ \/ Primaries' = {w.email}
                       \/ Primaries' = {} /\ \E d \in Clerks : errand'[d].at = "promote"
                       \/ \E d \in Clerks : errand'[d].at = "email"
  BY DEF MailKept
<1>a. "row" \notin unsettled /\ "mail" \notin unsettled
  BY Grows
<1>b. CASE user = {}
  <2>1. user' = {}
    <3>1. ASSUME NEW c \in Clerks, AccountRequest(c) PROVE user' = {}
      BY <1>b, <3>1, RequestAsks DEF Asks
    <3>2. ASSUME NEW c \in Clerks, Work(c) PROVE user' = {}
      <4>1. CASE WriteUser(c)
        <5>1. errand[c].at = "row"
          BY <4>1 DEF WriteUser
        <5> QED BY <1>a, <1>b, <5>1, OnPlace DEF Gone
      <4>2. CASE ~WriteUser(c)
        <5>1. user' = user \/ user' = {} \/ \E a : user' = {[x EXCEPT !.email = a] : x \in user}
          BY <3>2, <4>2 DEF Work, Rehash, RemoveUser, DropAddress, Demote, Promote, WriteEmail, LoginAddress,
             LoginDevice, LoginCode, OpenSession, SetUpAgain, CreateDevice, ConfirmDevice, TidyDevices,
             CheckCode, RemoveDevices, ExpireSessions, InsertAvatar, SaveAvatar, RemoveAvatar, accountRows
        <5> QED BY <1>b, <5>1
      <4> QED BY <4>1, <4>2
    <3>3. ASSUME NEW c \in Clerks, Break(c) PROVE user' = {}
      BY <1>b, <3>3, BreakStep
    <3>4. CASE ConfirmEmail \/ UNCHANGED accountVars
      <4>1. user' = user \/ \E a : user' = {[x EXCEPT !.email = a] : x \in user}
        <5>1. CASE ConfirmEmail
          BY <5>1 DEF ConfirmEmail
        <5>2. CASE UNCHANGED accountVars
          BY <5>2 DEF accountVars
        <5> QED BY <3>4, <5>1, <5>2
      <4> QED BY <1>b, <4>1
    <3> QED BY <3>1, <3>2, <3>3, <3>4 DEF AccountsNext, AccountRequest, Work
  <2> QED BY <2>1
<1>c. CASE user # {}
  <2>1. PICK u : user = {u}
    BY <1>c DEF AccountsShape
  <2>2. MailRight(u)
    BY <1>a, <2>1 DEF MailKept, MailRight
  <2>3. ASSUME NEW c \in Clerks, AccountRequest(c)
        PROVE  /\ \A d \in Clerks :
                   /\ errand'[d].at = "row" => errand'[d].row.email = w.email
                   /\ errand'[d].at = "drop" => errand'[d].address \notin Primaries'
                   /\ errand'[d].at = "email" => Primaries' = {errand'[d].address}
               /\ \/ Primaries' = {w.email}
                  \/ Primaries' = {} /\ \E d \in Clerks : errand'[d].at = "promote"
                  \/ \E d \in Clerks : errand'[d].at = "email"
    BY <2>1, <2>2, <2>3, MailRequest DEF MailRight
  <2>4. ASSUME NEW c \in Clerks, Work(c)
        PROVE  /\ \A d \in Clerks :
                   /\ errand'[d].at = "row" => errand'[d].row.email = w.email
                   /\ errand'[d].at = "drop" => errand'[d].address \notin Primaries'
                   /\ errand'[d].at = "email" => Primaries' = {errand'[d].address}
               /\ \/ Primaries' = {w.email}
                  \/ Primaries' = {} /\ \E d \in Clerks : errand'[d].at = "promote"
                  \/ \E d \in Clerks : errand'[d].at = "email"
    BY <1>a, <2>1, <2>2, <2>4, MailWork
  <2>5. ASSUME NEW c \in Clerks, Break(c)
        PROVE  /\ \A d \in Clerks :
                   /\ errand'[d].at = "row" => errand'[d].row.email = w.email
                   /\ errand'[d].at = "drop" => errand'[d].address \notin Primaries'
                   /\ errand'[d].at = "email" => Primaries' = {errand'[d].address}
               /\ \/ Primaries' = {w.email}
                  \/ Primaries' = {} /\ \E d \in Clerks : errand'[d].at = "promote"
                  \/ \E d \in Clerks : errand'[d].at = "email"
    <3>1. /\ errand'[c].at = "none" /\ \A d \in Clerks : d # c => errand'[d] = errand[d]
          /\ user' = user /\ address' = address
      BY <2>5, BreakStep
    <3>2. unsettled' = unsettled \cup errand[c].on
      BY <2>5 DEF Break
    <3>3. errand[c].at \notin {"promote", "email"}
      BY <3>2, OnPlace
    <3>4. Primaries' = Primaries /\ w = u
      BY <2>1, <3>1 DEF Primaries
    <3> QED BY <2>2, <3>1, <3>3, <3>4 DEF MailRight
  <2>6. CASE ConfirmEmail
    BY <1>a, <2>1, <2>2, <2>6, MailConfirm
  <2>7. CASE UNCHANGED accountVars
    BY <2>1, <2>2, <2>7 DEF accountVars, MailRight, Primaries
  <2> QED BY <2>3, <2>4, <2>5, <2>6, <2>7 DEF AccountsNext, AccountRequest, Work
<1> QED BY <1>b, <1>c

-----------------------------------------------------------------------------
(* Devices.                                                                *)

\* The devices there are, as two-factor login is switched on or off, ...
DevicesRight ==
    /\ guarded => \E d \in DOMAIN device : InForce = {d} /\ DOMAIN device = {d}
    /\ ~guarded => InForce = {} /\ \A d, e \in DOMAIN device : d = e

\* ... and what a request knows of them.
DeviceKnown(e) ==
    /\ e.at \in {"setup", "create"} => ~guarded
    /\ e.at = "create" => DOMAIN device = {}
    /\ e.at = "confirm" => e.device \in DOMAIN device /\ ~guarded
    /\ e.at \in {"code", "check"} => e.device \in InForce
    /\ e.at = "tidy" => guarded

LEMMA DevicesAre ==
    DevicesKept <=>
        ("devices" \notin unsettled => DevicesRight /\ \A c \in Clerks : DeviceKnown(errand[c]))
BY DEF DevicesKept, DevicesRight, DeviceKnown

LEMMA InForcePut ==
    ASSUME NEW d, NEW b \in BOOLEAN, device' = Put(device, d, b)
    PROVE  /\ DOMAIN device' = DOMAIN device \cup {d}
           /\ InForce' = (InForce \ {d}) \cup (IF b THEN {d} ELSE {})
<1>1. /\ DOMAIN device' = DOMAIN device \cup {d} /\ device'[d] = b
      /\ \A x \in DOMAIN device : x # d => device'[x] = device[x]
  BY DEF Put
<1> QED BY <1>1 DEF InForce

\* A device in force that is saved again stays what it is.
LEMMA SavedAgain ==
    ASSUME NEW d \in InForce, SavesDevice(d, TRUE)
    PROVE  DOMAIN device' = DOMAIN device /\ InForce' = InForce
<1>1. d \in DOMAIN device
  BY DEF InForce
<1>2. CASE device' = device
  BY <1>2 DEF InForce
<1>3. CASE device' = Put(device, d, TRUE)
  <2>1. PICK b \in BOOLEAN : b = TRUE
    OBVIOUS
  <2>2. device' = Put(device, d, b)
    BY <1>3, <2>1
  <2>3. /\ DOMAIN device' = DOMAIN device \cup {d}
        /\ InForce' = (InForce \ {d}) \cup (IF b THEN {d} ELSE {})
    BY <2>2, InForcePut
  <2>4. InForce' = (InForce \ {d}) \cup {d}
    BY <2>1, <2>3
  <2> QED BY <1>1, <2>3, <2>4
<1> QED BY <1>2, <1>3 DEF SavesDevice

\* The devices as a request goes on, ...
LEMMA DevicesWork ==
    ASSUME AccountsShape, Apart, Gone, NEW c \in Clerks, Work(c), "devices" \notin unsettled,
           DevicesRight, DeviceKnown(errand[c])
    PROVE  DevicesRight'
<1>a. errand[c].at \in {"code", "create", "confirm", "tidy", "check", "disable", "delete"} =>
          user # {}
  BY OnPlace, AtWork DEF Topics
<1>1. CASE LoginCode(c) \/ CheckCode(c)
  <2>1. /\ errand[c].at \in {"code", "check"} /\ SavesDevice(errand[c].device, TRUE)
        /\ guarded' = guarded
    BY <1>1 DEF LoginCode, CheckCode, accountPast
  <2>2. DOMAIN device' = DOMAIN device /\ InForce' = InForce
    BY <2>1, SavedAgain DEF DeviceKnown
  <2> QED BY <2>1, <2>2 DEF DevicesRight
<1>2. CASE CreateDevice(c)
  <2>1. errand[c].at = "create" /\ guarded' = guarded
        /\ device' = Put(device, NextOf("device"), FALSE)
    BY <1>2, <1>a DEF CreateDevice, accountPast
  <2>2. DOMAIN device = {} /\ ~guarded
    BY <2>1 DEF DeviceKnown
  <2>3. PICK b \in BOOLEAN : b = FALSE
    OBVIOUS
  <2>4. PICK n : n = NextOf("device")
    OBVIOUS
  <2>5. device' = Put(device, n, b)
    BY <2>1, <2>3, <2>4
  <2>6. DOMAIN device' = {n} /\ InForce' = {}
    BY <2>2, <2>3, <2>5, InForcePut DEF InForce
  <2> QED BY <2>1, <2>2, <2>6 DEF DevicesRight
<1>3. CASE ConfirmDevice(c)
  <2>1. PICK d : d = errand[c].device
    OBVIOUS
  <2>2. /\ d \in DOMAIN device /\ ~guarded
        /\ \/ device' = Put(device, d, FALSE) /\ guarded' = guarded
           \/ device' = Put(device, d, TRUE) /\ guarded' = TRUE
    BY <1>3, <1>a, <2>1 DEF ConfirmDevice, SavesDevice, DeviceKnown
  <2>3. DOMAIN device = {d} /\ InForce = {}
    BY <2>2 DEF DevicesRight
  <2>4. CASE device' = Put(device, d, FALSE) /\ guarded' = guarded
    <3>1. PICK b \in BOOLEAN : b = FALSE
      OBVIOUS
    <3>2. device' = Put(device, d, b)
      BY <2>4, <3>1
    <3>3. DOMAIN device' = {d} /\ InForce' = {}
      BY <2>3, <3>1, <3>2, InForcePut
    <3> QED BY <2>2, <2>4, <3>3 DEF DevicesRight
  <2>5. CASE device' = Put(device, d, TRUE) /\ guarded' = TRUE
    <3>1. PICK b \in BOOLEAN : b = TRUE
      OBVIOUS
    <3>2. device' = Put(device, d, b)
      BY <2>5, <3>1
    <3>3. DOMAIN device' = {d} /\ InForce' = {d}
      BY <2>3, <3>1, <3>2, InForcePut
    <3> QED BY <2>5, <3>3 DEF DevicesRight
  <2> QED BY <2>2, <2>4, <2>5
<1>4. CASE TidyDevices(c)
  <2>1. /\ errand[c].at = "tidy" /\ guarded' = guarded
        /\ device' = Cut(device, DOMAIN device \ (InForce \cup {errand[c].device}))
    BY <1>4 DEF TidyDevices, accountPast
  <2>2. DOMAIN device \ (InForce \cup {errand[c].device}) = {}
    BY <2>1 DEF DeviceKnown, DevicesRight
  <2>3. DOMAIN device' = DOMAIN device /\ \A x \in DOMAIN device : device'[x] = device[x]
    BY <2>1, <2>2 DEF Cut
  <2>4. InForce' = InForce
    BY <2>3 DEF InForce
  <2> QED BY <2>1, <2>3, <2>4 DEF DevicesRight
<1>5. CASE RemoveDevices(c) \/ RemoveUser(c)
  <2>1. device' = <<>> /\ guarded' = FALSE
    BY <1>5 DEF RemoveDevices, RemoveUser
  <2>2. DOMAIN device' = {} /\ ~guarded'
    BY <2>1
  <2> QED BY <2>2 DEF DevicesRight, InForce
<1>6. CASE ~(LoginCode(c) \/ CheckCode(c) \/ CreateDevice(c) \/ ConfirmDevice(c) \/ TidyDevices(c)
              \/ RemoveDevices(c) \/ RemoveUser(c))
  <2>1. device' = device /\ guarded' = guarded
    BY <1>6 DEF Work, WriteUser, Rehash, DropAddress, Demote, Promote, WriteEmail, LoginAddress,
       LoginDevice, OpenSession, SetUpAgain, ExpireSessions, InsertAvatar, SaveAvatar, RemoveAvatar,
       accountRows, accountPast
  <2> QED BY <2>1 DEF DevicesRight, InForce
<1> QED BY <1>1, <1>2, <1>3, <1>4, <1>5, <1>6

\* ... and what it knows of them then.
LEMMA KnownWork ==
    ASSUME AccountsShape, Apart, Gone, NEW c \in Clerks, Work(c), "devices" \notin unsettled,
           DevicesRight, DeviceKnown(errand[c]), NEW next, Works(c, next)
    PROVE  DeviceKnown(next)'
<1>1. /\ next.at \notin {"setup", "confirm", "check"}
      /\ next.at = "create" => errand[c].at = "setup" /\ DOMAIN device \ InForce = {}
      /\ next.at = "tidy" => errand[c].at = "confirm"
      /\ next.at = "code" => next.device \in InForce /\ errand[c].at \in {"address", "device", "code"}
      /\ errand'[c] = next
  BY WorkStep DEF Works
<1>2. CASE next.at = "create"
  <2>1. errand[c].at = "setup"
    BY <1>1, <1>2
  <2>2. device' = device /\ guarded' = guarded
    BY <2>1 DEF Work, WriteUser, Rehash, RemoveUser, DropAddress, Demote, Promote, WriteEmail, LoginAddress,
       LoginDevice, LoginCode, OpenSession, SetUpAgain, CreateDevice, ConfirmDevice, TidyDevices,
       CheckCode, RemoveDevices, ExpireSessions, InsertAvatar, SaveAvatar, RemoveAvatar, accountRows,
       accountPast
  <2>3. ~guarded /\ DOMAIN device = {}
    BY <1>1, <1>2, <2>1 DEF DeviceKnown, DevicesRight
  <2> QED BY <1>2, <2>2, <2>3 DEF DeviceKnown
<1>3. CASE next.at = "tidy"
  <2>1. errand[c].at = "confirm"
    BY <1>1, <1>3
  <2>2. ConfirmDevice(c)
    BY <2>1 DEF Work, WriteUser, Rehash, RemoveUser, DropAddress, Demote, Promote, WriteEmail, LoginAddress,
       LoginDevice, LoginCode, OpenSession, SetUpAgain, CreateDevice, TidyDevices,
       CheckCode, RemoveDevices, ExpireSessions, InsertAvatar, SaveAvatar, RemoveAvatar
  <2>3. Finish(c) => errand'[c].at = "none"
    BY DEF Finish, Proceed, NoErrand, AccountsShape
  <2>4. guarded' = TRUE
    BY <1>1, <1>3, <2>2, <2>3 DEF ConfirmDevice
  <2> QED BY <1>3, <2>4 DEF DeviceKnown
<1>4. CASE next.at = "code"
  <2>1. errand[c].at \in {"address", "device", "code"}
    BY <1>1, <1>4
  <2>2. LoginAddress(c) \/ LoginDevice(c) \/ LoginCode(c)
    BY <2>1 DEF Work, WriteUser, Rehash, RemoveUser, DropAddress, Demote, Promote, WriteEmail,
       OpenSession, SetUpAgain, CreateDevice, ConfirmDevice, TidyDevices,
       CheckCode, RemoveDevices, ExpireSessions, InsertAvatar, SaveAvatar, RemoveAvatar
  <2>3. InForce' = InForce
    <3>1. CASE device' = device
      BY <3>1 DEF InForce
    <3>2. CASE LoginCode(c)
      <4>1. errand[c].at = "code" /\ SavesDevice(errand[c].device, TRUE)
        BY <3>2 DEF LoginCode
      <4> QED BY <4>1, SavedAgain DEF DeviceKnown
    <3> QED BY <2>2, <3>1, <3>2 DEF LoginAddress, LoginDevice, accountRows
  <2> QED BY <1>1, <1>4, <2>3 DEF DeviceKnown
<1>5. CASE next.at \notin {"create", "tidy", "code"}
  BY <1>1, <1>5 DEF DeviceKnown
<1> QED BY <1>2, <1>3, <1>4, <1>5

LEMMA DevicesStay ==
    AccountsShape /\ Apart /\ Gone /\ DevicesKept /\ [AccountsNext]_accountVars => DevicesKept'
<1> SUFFICES ASSUME AccountsShape, Apart, Gone, DevicesKept, [AccountsNext]_accountVars,
                    "devices" \notin unsettled'
             PROVE  DevicesRight' /\ \A d \in Clerks : DeviceKnown(errand[d])'
  BY DEF DevicesKept, DevicesRight, DeviceKnown
<1>a. "devices" \notin unsettled /\ DevicesRight /\ \A d \in Clerks : DeviceKnown(errand[d])
  BY Grows, DevicesAre
<1>1. ASSUME NEW c \in Clerks, AccountRequest(c)
      PROVE  DevicesRight' /\ \A d \in Clerks : DeviceKnown(errand[d])'
  <2>1. PICK next : Asks(c, next)
    BY <1>1, RequestAsks
  <2>2. /\ errand'[c] = next /\ \A d \in Clerks : d # c => errand'[d] = errand[d]
        /\ device' = device /\ guarded' = guarded
    BY <2>1, RequestStep DEF Asks
  <2>3. DeviceKnown(next)
    BY <1>a, <2>1 DEF Asks, DeviceKnown, DevicesRight
  <2>4. DevicesRight'
    BY <1>a, <2>2 DEF DevicesRight, InForce
  <2>5. ASSUME NEW d \in Clerks PROVE DeviceKnown(errand[d])'
    <3>1. DeviceKnown(errand'[d])
      BY <1>a, <2>2, <2>3
    <3> QED BY <2>2, <3>1 DEF DeviceKnown, InForce
  <2> QED BY <2>4, <2>5
<1>2. ASSUME NEW c \in Clerks, Work(c)
      PROVE  DevicesRight' /\ \A d \in Clerks : DeviceKnown(errand[d])'
  <2>1. PICK next : Works(c, next)
    BY <1>2, WorkWorks
  <2>2. errand'[c] = next /\ \A d \in Clerks : d # c => errand'[d] = errand[d]
    BY <2>1, WorkStep
  <2>3. DevicesRight' /\ DeviceKnown(next)'
    BY <1>2, <1>a, <2>1, DevicesWork, KnownWork
  <2>4. DeviceKnown(errand[c])'
    BY <2>2, <2>3 DEF DeviceKnown
  <2>5. ASSUME NEW d \in Clerks, d # c PROVE DeviceKnown(errand[d])'
    <3>1. errand'[d] = errand[d] /\ DeviceKnown(errand[d])
      BY <1>a, <2>2, <2>5
    <3>2. CASE "devices" \in errand[c].on
      <4>1. "devices" \notin errand[d].on
        BY <1>a, <2>5, <3>2 DEF Apart
      <4>2. errand[d].at \notin {"setup", "create", "confirm", "code", "check", "tidy"}
        BY <4>1, OnPlace
      <4> QED BY <3>1, <4>2 DEF DeviceKnown
    <3>3. CASE "devices" \notin errand[c].on
      <4>1. errand[c].at \notin {"address", "device", "code", "open", "setup", "create", "confirm", "tidy",
                             "check", "disable", "expire", "delete"}
        BY <3>3, OnPlace DEF Topics
      <4>2. device' = device /\ guarded' = guarded
        BY <1>2, <4>1 DEF Work, WriteUser, Rehash, RemoveUser, DropAddress, Demote, Promote, WriteEmail,
           LoginAddress, LoginDevice, LoginCode, OpenSession, SetUpAgain, CreateDevice, ConfirmDevice,
           TidyDevices, CheckCode, RemoveDevices, ExpireSessions, InsertAvatar, SaveAvatar, RemoveAvatar,
           accountRows, accountPast
      <4> QED BY <3>1, <4>2 DEF DeviceKnown, InForce
    <3> QED BY <3>2, <3>3
  <2> QED BY <2>3, <2>4, <2>5
<1>3. ASSUME NEW c \in Clerks, Break(c)
      PROVE  DevicesRight' /\ \A d \in Clerks : DeviceKnown(errand[d])'
  <2>1. /\ errand'[c].at = "none" /\ \A d \in Clerks : d # c => errand'[d] = errand[d]
        /\ device' = device /\ guarded' = guarded
    BY <1>3, BreakStep
  <2> QED BY <1>a, <2>1 DEF DevicesRight, DeviceKnown, InForce
<1>4. CASE ConfirmEmail \/ UNCHANGED accountVars
  <2>1. device' = device /\ guarded' = guarded /\ errand' = errand
    BY <1>4 DEF ConfirmEmail, accountVars, accountPast
  <2> QED BY <1>a, <2>1 DEF DevicesRight, DeviceKnown, InForce
<1> QED BY <1>1, <1>2, <1>3, <1>4 DEF AccountsNext, AccountRequest, Work

-----------------------------------------------------------------------------
(* Avatars, and what is left.                                              *)

LEMMA AvatarWork ==
    ASSUME AccountsShape, Apart, Gone, AvatarKept, NEW c \in Clerks, Work(c), "avatar" \notin unsettled
    PROVE  \A a, b \in avatar' : a = b
<1>1. CASE InsertAvatar(c)
  <2>1. errand[c].at = "avatar" /\ user # {}
    BY <1>1, OnPlace, AtWork DEF InsertAvatar
  <2>2. avatar = {} /\ avatar' = avatar \cup {NextOf("avatar")}
    BY <1>1, <2>1 DEF InsertAvatar, AvatarKept
  <2> QED BY <2>2
<1>2. CASE SaveAvatar(c)
  BY <1>2 DEF SaveAvatar, AvatarKept
<1>3. CASE RemoveAvatar(c)
  <2>1. avatar' \subseteq avatar \/ \E a : avatar' = {a}
    BY <1>3 DEF RemoveAvatar
  <2> QED BY <2>1 DEF AvatarKept
<1>4. CASE RemoveUser(c)
  BY <1>4 DEF RemoveUser
<1>5. CASE ~(InsertAvatar(c) \/ SaveAvatar(c) \/ RemoveAvatar(c) \/ RemoveUser(c))
  <2>1. avatar' = avatar
    BY <1>5 DEF Work, WriteUser, Rehash, DropAddress, Demote, Promote, WriteEmail, LoginAddress,
       LoginDevice, LoginCode, OpenSession, SetUpAgain, CreateDevice, ConfirmDevice, TidyDevices,
       CheckCode, RemoveDevices, ExpireSessions, accountRows
  <2> QED BY <2>1 DEF AvatarKept
<1> QED BY <1>1, <1>2, <1>3, <1>4, <1>5

LEMMA AvatarStays ==
    AccountsShape /\ Apart /\ Gone /\ AvatarKept /\ [AccountsNext]_accountVars => AvatarKept'
<1> SUFFICES ASSUME AccountsShape, Apart, Gone, AvatarKept, [AccountsNext]_accountVars,
                    "avatar" \notin unsettled'
             PROVE  /\ \A a, b \in avatar' : a = b
                    /\ \A d \in Clerks : errand'[d].at = "avatar" => avatar' = {}
  BY DEF AvatarKept
<1>a. /\ "avatar" \notin unsettled /\ \A a, b \in avatar : a = b
      /\ \A d \in Clerks : errand[d].at = "avatar" => avatar = {}
  BY Grows DEF AvatarKept
<1>1. ASSUME NEW c \in Clerks, AccountRequest(c)
      PROVE  /\ \A a, b \in avatar' : a = b
             /\ \A d \in Clerks : errand'[d].at = "avatar" => avatar' = {}
  <2>1. PICK next : Asks(c, next)
    BY <1>1, RequestAsks
  <2>2. /\ errand'[c] = next /\ \A d \in Clerks : d # c => errand'[d] = errand[d]
        /\ avatar' = IF next.at = "avatar" THEN {} ELSE avatar
    BY <2>1, RequestStep DEF Asks
  <2> QED BY <1>a, <2>2
<1>2. ASSUME NEW c \in Clerks, Work(c)
      PROVE  /\ \A a, b \in avatar' : a = b
             /\ \A d \in Clerks : errand'[d].at = "avatar" => avatar' = {}
  <2>1. PICK next : Works(c, next)
    BY <1>2, WorkWorks
  <2>2. /\ errand'[c] = next /\ \A d \in Clerks : d # c => errand'[d] = errand[d]
        /\ next.at # "avatar"
    BY <2>1, WorkStep DEF Works
  <2>3. ASSUME NEW d \in Clerks, errand'[d].at = "avatar" PROVE avatar' = {}
    <3>1. d # c /\ errand[d].at = "avatar" /\ avatar = {}
      BY <1>a, <2>2, <2>3
    <3>2. "avatar" \notin errand[c].on
      BY <1>a, <3>1, OnPlace DEF Apart
    <3>3. errand[c].at \notin {"avatar", "save", "unshow", "delete"}
      BY <3>2, OnPlace DEF Topics
    <3>4. avatar' = avatar
      BY <1>2, <3>3 DEF Work, WriteUser, Rehash, RemoveUser, DropAddress, Demote, Promote, WriteEmail,
         LoginAddress, LoginDevice, LoginCode, OpenSession, SetUpAgain, CreateDevice, ConfirmDevice,
         TidyDevices, CheckCode, RemoveDevices, ExpireSessions, InsertAvatar, SaveAvatar, RemoveAvatar,
         accountRows
    <3> QED BY <3>1, <3>4
  <2> QED BY <1>a, <1>2, <2>3, AvatarWork
<1>3. ASSUME NEW c \in Clerks, Break(c)
      PROVE  /\ \A a, b \in avatar' : a = b
             /\ \A d \in Clerks : errand'[d].at = "avatar" => avatar' = {}
  BY <1>3, <1>a, BreakStep
<1>4. CASE ConfirmEmail \/ UNCHANGED accountVars
  BY <1>4, <1>a DEF ConfirmEmail, accountVars
<1> QED BY <1>1, <1>2, <1>3, <1>4 DEF AccountsNext, AccountRequest, Work

LEMMA EmptiedStays ==
    AccountsShape /\ Gone /\ Emptied /\ [AccountsNext]_accountVars => Emptied'
<1> SUFFICES ASSUME AccountsShape, Gone, Emptied, [AccountsNext]_accountVars,
                    user' = {}, Topics \cap unsettled' = {}
             PROVE  DOMAIN address' = {} /\ DOMAIN device' = {} /\ avatar' = {}
  BY DEF Emptied
<1>a. Topics \cap unsettled = {}
  BY Grows
<1>b. user = {} => /\ DOMAIN address = {} /\ DOMAIN device = {} /\ avatar = {}
                   /\ \A c \in Clerks : errand[c].on = {}
  BY <1>a, OnTopics DEF Emptied, Gone
<1>1. ASSUME NEW c \in Clerks, AccountRequest(c)
      PROVE  DOMAIN address' = {} /\ DOMAIN device' = {} /\ avatar' = {}
  <2>1. PICK next : Asks(c, next)
    BY <1>1, RequestAsks
  <2>2. user = {} /\ device' = device /\ next.on = {}
    BY <2>1 DEF Asks
  <2>3. next.at # "avatar"
    BY <2>1, <2>2 DEF Asks, ErrandRight, OnOf
  <2>4. address' = address /\ avatar' = avatar
    BY <2>1, <2>2, <2>3 DEF Asks
  <2> QED BY <1>b, <2>2, <2>4
<1>2. ASSUME NEW c \in Clerks, Work(c)
      PROVE  DOMAIN address' = {} /\ DOMAIN device' = {} /\ avatar' = {}
  <2>1. user # {}
    BY <1>2, <1>b, WorkWorks DEF Works
  <2>2. CASE RemoveUser(c)
    <3>1. address' = <<>> /\ device' = <<>> /\ avatar' = {}
      BY <2>2 DEF RemoveUser
    <3> QED BY <3>1
  <2>3. CASE ~RemoveUser(c)
    <3>1. user' = user \/ \E x : user' = {x} \/ \E a : user' = {[u EXCEPT !.email = a] : u \in user}
      BY <1>2, <2>3 DEF Work, WriteUser, Rehash, DropAddress, Demote, Promote, WriteEmail, LoginAddress,
         LoginDevice, LoginCode, OpenSession, SetUpAgain, CreateDevice, ConfirmDevice, TidyDevices,
         CheckCode, RemoveDevices, ExpireSessions, InsertAvatar, SaveAvatar, RemoveAvatar, accountRows
    <3> QED BY <2>1, <3>1
  <2> QED BY <2>2, <2>3
<1>3. ASSUME NEW c \in Clerks, Break(c)
      PROVE  DOMAIN address' = {} /\ DOMAIN device' = {} /\ avatar' = {}
  BY <1>3, <1>b, BreakStep
<1>4. CASE ConfirmEmail
  <2>1. PICK a \in DOMAIN address :
          user' = IF Primaries = {} THEN {[u EXCEPT !.email = a] : u \in user} ELSE user
    BY <1>4 DEF ConfirmEmail
  <2>2. user = {}
    BY <2>1
  <2> QED BY <1>b, <2>1, <2>2
<1>5. CASE UNCHANGED accountVars
  BY <1>5, <1>b DEF accountVars
<1> QED BY <1>1, <1>2, <1>3, <1>4, <1>5 DEF AccountsNext, AccountRequest, Work

-----------------------------------------------------------------------------
(* The account.                                                            *)

LEMMA AccountsInvInit == AccountsInit => AccountsInv
<1> SUFFICES ASSUME AccountsInit PROVE AccountsInv
  OBVIOUS
<1>1. PICK fs : fs = [f \in Fields |-> 0]
  OBVIOUS
<1>2. PICK u : u = [field |-> fs, email |-> FirstAddress]
  OBVIOUS
<1>3. user = {u} /\ set = fs /\ u.field = fs /\ u.email = FirstAddress
  BY <1>1, <1>2 DEF AccountsInit
<1>4. asked = 0 /\ fs \in [Fields -> 0..0] /\ UserRight(u, 0)
  <2>1. fs \in [Fields -> 0..0]
    BY <1>1
  <2> QED BY <1>2, <1>3, <2>1 DEF AccountsInit, UserRight
<1>5. /\ \A c \in Clerks : errand[c] = NoErrand /\ errand[c].at = "none" /\ errand[c].on = {}
      /\ errand = [c \in Clerks |-> errand[c]] /\ shutOut = {} /\ unsettled = {}
  BY DEF AccountsInit, NoErrand
<1>6. ErrandRight(NoErrand, 0)
  BY DEF NoErrand, ErrandRight, OnOf
<1>7. /\ DOMAIN session = {1} /\ session[1] = 0
      /\ issued = [device |-> issued.device, avatar |-> issued.avatar, session |-> issued.session]
      /\ issued.session = 1
  BY DEF AccountsInit
<1>8. AccountsShape
  <2>1. user = {} \/ \E w \in user : user = {w}
    BY <1>3
  <2>2. \A w \in user : UserRight(w, asked)
    BY <1>3, <1>4
  <2>3. set \in [Fields -> 0..asked]
    BY <1>3, <1>4
  <2>4. \A s \in DOMAIN session : s \in 1..issued.session /\ session[s] \in 0..asked
    BY <1>4, <1>7
  <2>5. shutOut \subseteq 1..issued.session
    BY <1>5
  <2>6. \A c \in Clerks : ErrandRight(errand[c], asked)
    BY <1>4, <1>5, <1>6
  <2>7. asked \in Nat /\ issued.session \in Nat
    BY <1>4, <1>7
  <2> QED BY <1>5, <1>7, <2>1, <2>2, <2>3, <2>4, <2>5, <2>6, <2>7 DEF AccountsShape
<1>9. /\ FirstAddress \in DOMAIN address
      /\ \A a \in DOMAIN address : address[a] = [primary |-> a = FirstAddress, verified |-> TRUE]
  <2>1. address = [a \in IF guarded THEN Addresses ELSE {FirstAddress} |->
                     [primary |-> a = FirstAddress, verified |-> TRUE]]
    BY DEF AccountsInit
  <2>2. DOMAIN address = IF guarded THEN Addresses ELSE {FirstAddress}
    BY <2>1
  <2>3. FirstAddress \in DOMAIN address
    BY <2>2, AccountsAssumption
  <2> QED BY <2>1, <2>2, <2>3
<1>10. ASSUME NEW a \in DOMAIN address
       PROVE  /\ address[a] = [primary |-> address[a].primary, verified |-> address[a].verified]
              /\ address[a].primary \in BOOLEAN /\ address[a].verified
              /\ address[a].primary <=> a = FirstAddress
  <2>1. PICK p \in BOOLEAN : p = (a = FirstAddress)
    OBVIOUS
  <2>2. PICK v : v = TRUE
    OBVIOUS
  <2>3. address[a] = [primary |-> p, verified |-> v]
    BY <1>9, <2>1, <2>2
  <2>4. address[a].primary = p /\ address[a].verified = v
    BY <2>3
  <2> QED BY <2>1, <2>2, <2>3, <2>4
<1>11. AddressesRight /\ Primaries = {FirstAddress}
  BY <1>9, <1>10 DEF AddressesRight, Primaries
<1>12. DevicesRight
  <2>1. CASE guarded
    <3>1. DOMAIN device = {1} /\ device[1] = TRUE
      BY <2>1 DEF AccountsInit
    <3> QED BY <2>1, <3>1 DEF DevicesRight, InForce
  <2>2. CASE ~guarded
    <3>1. DOMAIN device = {}
      BY <2>2 DEF AccountsInit
    <3> QED BY <2>2, <3>1 DEF DevicesRight, InForce
  <2> QED BY <2>1, <2>2
<1>13. DevicesKept
  BY <1>5, <1>12, DevicesAre DEF DeviceKnown
<1>14. MailKept
  BY <1>3, <1>5, <1>11 DEF MailKept
<1>15. avatar = {}
  BY DEF AccountsInit
<1> QED BY <1>3, <1>5, <1>8, <1>11, <1>13, <1>14, <1>15
        DEF AccountsInv, Apart, Gone, RowKept, AvatarKept, Emptied, FreshPassword, ShutOutKept

LEMMA AccountsInvNext == AccountsInv /\ [AccountsNext]_accountVars => AccountsInv'
<1> SUFFICES ASSUME AccountsInv, [AccountsNext]_accountVars PROVE AccountsInv'
  OBVIOUS
<1>1. /\ AccountsShape /\ AddressesRight /\ Apart /\ Gone
      /\ RowKept /\ MailKept /\ DevicesKept /\ AvatarKept /\ Emptied /\ FreshPassword /\ ShutOutKept
  BY DEF AccountsInv
<1>2. AccountsShape' /\ AddressesRight' /\ Apart' /\ Gone'
  BY <1>1, ShapeKept, AddressesKept, ApartKept, GoneKept
<1>3. RowKept' /\ MailKept'
  BY <1>1, RowStays, MailStays
<1>4. DevicesKept' /\ AvatarKept' /\ Emptied'
  BY <1>1, DevicesStay, AvatarStays, EmptiedStays
<1>5. FreshPassword' /\ ShutOutKept'
  BY <1>1, FreshStays, ShutOutStays
<1> QED BY <1>2, <1>3, <1>4, <1>5 DEF AccountsInv

\* At most one there is what two of it agree about.
LEMMA OneAtMost ==
    ASSUME NEW S, \A a, b \in S : a = b
    PROVE  Cardinality(S) <= 1
<1>1. CASE S = {}
  BY <1>1, FS_EmptySet
<1>2. CASE S # {}
  <2>1. PICK x : S = {x}
    BY <1>2
  <2> QED BY <2>1, FS_Singleton
<1> QED BY <1>1, <1>2

LEMMA AccountKeptNow == AccountsInv => AccountKept
<1> SUFFICES ASSUME AccountsInv PROVE AccountKept
  OBVIOUS
<1>a. /\ AccountsShape /\ AddressesRight /\ Apart /\ Gone
      /\ RowKept /\ MailKept /\ DevicesKept /\ AvatarKept /\ Emptied /\ FreshPassword /\ ShutOutKept
  BY DEF AccountsInv
<1>1. Settled({"row"}) => \A u \in user : u.field = set
  BY <1>a DEF Settled, RowKept
<1>2. ASSUME Settled({"row", "mail"}), NEW u \in user PROVE Primaries = {u.email}
  <2>1. "row" \notin unsettled /\ "mail" \notin unsettled
    BY <1>2 DEF Settled
  <2>2. \A c \in Clerks : "mail" \notin errand[c].on
    BY <1>2 DEF Settled
  <2>3. \A c \in Clerks : errand[c].at \notin {"promote", "email"}
    BY <1>a, <2>2, OnPlace
  <2> QED BY <1>a, <2>1, <2>3 DEF MailKept
<1>3. ASSUME Settled({"devices"}), user # {}
      PROVE  /\ Cardinality(InForce) = (IF guarded THEN 1 ELSE 0)
             /\ Cardinality(DOMAIN device \ InForce) <= (IF guarded THEN 0 ELSE 1)
  <2>1. DevicesRight
    BY <1>a, <1>3, DevicesAre DEF Settled
  <2>2. CASE guarded
    <3>1. PICK d : InForce = {d} /\ DOMAIN device \ InForce = {}
      BY <2>1, <2>2 DEF DevicesRight
    <3>2. Cardinality(InForce) = 1 /\ Cardinality(DOMAIN device \ InForce) = 0
      BY <3>1, FS_Singleton, FS_EmptySet
    <3> QED BY <2>2, <3>2
  <2>3. CASE ~guarded
    <3>1. InForce = {} /\ \A d, e \in DOMAIN device \ InForce : d = e
      BY <2>1, <2>3 DEF DevicesRight
    <3>2. Cardinality(InForce) = 0
      BY <3>1, FS_EmptySet
    <3>3. Cardinality(DOMAIN device \ InForce) <= 1
      BY <3>1, OneAtMost
    <3> QED BY <2>3, <3>2, <3>3
  <2> QED BY <2>2, <2>3
<1>4. Settled({"avatar"}) => Cardinality(avatar) <= 1
  BY <1>a, OneAtMost DEF Settled, AvatarKept
<1>5. ASSUME "row" \notin unsettled, NEW s \in shutOut PROVE ~LoggedIn(s)
  BY <1>a, <1>5 DEF LoggedIn, ShutOutKept, RowKept
<1>6. user = {} /\ Settled(Topics) => DOMAIN address \cup DOMAIN device \cup avatar = {}
  BY <1>a DEF Settled, Emptied
<1> QED BY <1>1, <1>2, <1>3, <1>4, <1>5, <1>6 DEF AccountKept

\* Unless two requests were at work on the same part of the account, or one failed: the row
\* keeps what each request set, the one primary address is that of the row, two-factor login
\* is on as it was switched, there is one avatar at most, and a session that a new password
\* ended never works again (the views of user/views.py).
THEOREM AccountKeptCorrect == AccountsSpec => []AccountKept
<1>1. AccountsSpec => []AccountsInv
  BY AccountsInvInit, AccountsInvNext, PTL DEF AccountsSpec
<1> QED BY <1>1, AccountKeptNow, PTL

-----------------------------------------------------------------------------
(* The types of Accounts.                                                  *)

\* Addresses, devices and avatars that a request has in hand are such as there may be.
InHand(e, last) ==
    /\ e.at \in {"row", "address", "device", "code", "open"} => e.row.email \in Addresses
    /\ e.at \in {"demote", "promote", "email"} => e.address \in Addresses
    /\ e.at \in {"confirm", "code", "check"} => e.device \in 1..last.device
    /\ e.at = "save" => e.avatar \in 1..last.avatar
    /\ e.at = "unshow" => e.others \subseteq 1..last.avatar

\* What of the types the proofs above do not need.
AccountsBound ==
    /\ asked <= MaxAsked /\ guarded \in BOOLEAN /\ unsettled \subseteq Topics
    /\ DOMAIN address \subseteq Addresses /\ \A u \in user : u.email \in Addresses
    /\ issued.device \in Nat /\ issued.avatar \in Nat
    /\ DOMAIN device \subseteq 1..issued.device /\ avatar \subseteq 1..issued.avatar
    /\ \A c \in Clerks : InHand(errand[c], issued)

LEMMA NothingInHand == \A last : InHand(NoErrand, last)
BY DEF InHand, NoErrand

\* Numbers are only added to.
LEMMA IssuedGrows ==
    ASSUME AccountsShape, AccountsBound, AccountsNext
    PROVE  /\ issued'.device \in Nat /\ issued'.avatar \in Nat
           /\ 1..issued.device \subseteq 1..issued'.device
           /\ 1..issued.avatar \subseteq 1..issued'.avatar
<1>1. /\ issued = [device |-> issued.device, avatar |-> issued.avatar, session |-> issued.session]
      /\ issued.device \in Nat /\ issued.avatar \in Nat
  BY DEF AccountsShape, AccountsBound
<1>2. \/ issued' = issued
      \/ \E kind \in {"device", "avatar", "session"} : Make(kind)
  <2>1. ASSUME NEW c \in Clerks, AccountRequest(c) PROVE issued' = issued
    BY <2>1, RequestAsks DEF Asks
  <2>2. ASSUME NEW c \in Clerks, Break(c) PROVE issued' = issued
    BY <2>2 DEF Break, accountRows
  <2>3. ASSUME NEW c \in Clerks, Work(c)
        PROVE  issued' = issued \/ \E kind \in {"device", "avatar", "session"} : Make(kind)
    BY <2>3 DEF Work, WriteUser, Rehash, RemoveUser, DropAddress, Demote, Promote, WriteEmail,
         LoginAddress, LoginDevice, LoginCode, OpenSession, SetUpAgain, CreateDevice, ConfirmDevice,
         TidyDevices, CheckCode, RemoveDevices, ExpireSessions, InsertAvatar, SaveAvatar, RemoveAvatar,
         accountRows
  <2>4. CASE ConfirmEmail
    BY <2>4 DEF ConfirmEmail
  <2> QED
    BY <2>1, <2>2, <2>3, <2>4 DEF AccountsNext, AccountRequest, Work
<1>3. ASSUME NEW kind \in {"device", "avatar", "session"}, Make(kind)
      PROVE  /\ issued'.device \in {issued.device, issued.device + 1}
             /\ issued'.avatar \in {issued.avatar, issued.avatar + 1}
  BY <1>1, <1>3 DEF Make
<1> QED
  BY <1>1, <1>2, <1>3

\* What a request has in hand when it has come to a place.
LEMMA PlaceInHand ==
    ASSUME AccountsShape, AccountsBound, NEW c \in Clerks, NEW place, To(c, place),
           \/ place \in {"rehash", "create", "tidy", "disable", "expire"}
           \/ place = "promote" /\ errand[c].at = "demote"
           \/ place = "email" /\ errand[c].at = "promote"
           \/ place \in {"device", "open"} /\ errand[c].at \in {"address", "device", "code"}
    PROVE  InHand(errand'[c], issued)
<1> DEFINE e == errand[c]
           n == [e EXCEPT !.at = place]
<1>1. ErrandRight(e, asked) /\ InHand(e, issued)
  BY DEF AccountsShape, AccountsBound
<1>2. errand'[c] = n
  BY OthersStand DEF AccountsShape, To, Proceed
<1>3. /\ n.at = place
      /\ "row" \in DOMAIN e => n.row = e.row
      /\ "address" \in DOMAIN e => n.address = e.address
  BY <1>1, PlaceIs DEF ErrandRight
<1>4. /\ e.at \in {"address", "device", "code"} => "row" \in DOMAIN e
      /\ e.at \in {"demote", "promote"} => "address" \in DOMAIN e
  BY <1>1 DEF ErrandRight
<1> HIDE DEF n, e
<1>5. CASE place \in {"rehash", "create", "tidy", "disable", "expire"}
  BY <1>2, <1>3, <1>5 DEF InHand
<1>6. CASE (place = "promote" /\ e.at = "demote") \/ (place = "email" /\ e.at = "promote")
  BY <1>1, <1>2, <1>3, <1>4, <1>6 DEF InHand
<1>7. CASE place \in {"device", "open"} /\ e.at \in {"address", "device", "code"}
  BY <1>1, <1>2, <1>3, <1>4, <1>7 DEF InHand
<1> QED
  BY <1>5, <1>6, <1>7 DEF e

LEMMA WorkInHand ==
    ASSUME AccountsShape, AccountsBound, NEW c \in Clerks, Work(c)
    PROVE  InHand(errand'[c], issued')
<1>1. CASE Finish(c)
  <2>1. errand'[c] = NoErrand
    BY <1>1, OthersStand DEF AccountsShape, Finish, Proceed
  <2> QED
    BY <2>1, NothingInHand
<1>2. ASSUME NEW place, To(c, place), issued' = issued,
             \/ place \in {"rehash", "create", "tidy", "disable", "expire"}
             \/ place = "promote" /\ errand[c].at = "demote"
             \/ place = "email" /\ errand[c].at = "promote"
             \/ place \in {"device", "open"} /\ errand[c].at \in {"address", "device", "code"}
      PROVE  InHand(errand'[c], issued')
  BY <1>2, PlaceInHand
<1>3. CASE WriteUser(c)
  <2>1. (Finish(c) \/ To(c, "rehash")) /\ issued' = issued
    BY <1>3 DEF WriteUser
  <2> QED
    BY <1>1, <1>2, <2>1
<1>4. CASE Rehash(c) \/ RemoveUser(c) \/ DropAddress(c) \/ WriteEmail(c) \/ OpenSession(c)
             \/ CreateDevice(c) \/ TidyDevices(c) \/ ExpireSessions(c) \/ SaveAvatar(c) \/ RemoveAvatar(c)
  BY <1>1, <1>4 DEF Rehash, RemoveUser, DropAddress, WriteEmail, OpenSession, CreateDevice,
                    TidyDevices, ExpireSessions, SaveAvatar, RemoveAvatar
<1>5. CASE Demote(c)
  BY <1>2, <1>5 DEF Demote
<1>6. CASE Promote(c)
  <2>1. (Finish(c) \/ To(c, "email")) /\ issued' = issued /\ errand[c].at = "promote"
    BY <1>6 DEF Promote
  <2> QED
    BY <1>1, <1>2, <2>1
<1>7. CASE LoginAddress(c)
  <2>1. (Finish(c) \/ To(c, "device")) /\ issued' = issued /\ errand[c].at = "address"
    BY <1>7 DEF LoginAddress
  <2> QED
    BY <1>1, <1>2, <2>1
<1>8. CASE LoginDevice(c)
  <2>1. issued' = issued /\ errand[c].at = "device"
    BY <1>8 DEF LoginDevice, accountRows
  <2>2. ASSUME NEW d \in FirstInForce,
               Proceed(c, [at |-> "code", on |-> errand[c].on, row |-> errand[c].row, device |-> d])
        PROVE  InHand(errand'[c], issued')
    <3> DEFINE n == [at |-> "code", on |-> errand[c].on, row |-> errand[c].row, device |-> d]
    <3>1. errand'[c] = n
      BY <2>2, OthersStand DEF AccountsShape, Proceed
    <3>2. n.at = "code" /\ n.row = errand[c].row /\ n.device = d
      OBVIOUS
    <3>3. d \in 1..issued.device
      BY DEF FirstInForce, InForce, AccountsBound
    <3>4. errand[c].row.email \in Addresses
      BY <2>1 DEF AccountsBound, InHand
    <3> HIDE DEF n
    <3> QED
      BY <2>1, <3>1, <3>2, <3>3, <3>4 DEF InHand
  <2>3. \/ To(c, "open") \/ Finish(c)
        \/ \E d \in FirstInForce :
             Proceed(c, [at |-> "code", on |-> errand[c].on, row |-> errand[c].row, device |-> d])
    BY <1>8 DEF LoginDevice
  <2> QED
    BY <1>1, <1>2, <2>1, <2>2, <2>3
<1>9. CASE LoginCode(c)
  <2>1. (Finish(c) \/ To(c, "open")) /\ issued' = issued /\ errand[c].at = "code"
    BY <1>9 DEF LoginCode
  <2> QED
    BY <1>1, <1>2, <2>1
<1>10. CASE SetUpAgain(c) \/ ConfirmDevice(c) \/ CheckCode(c) \/ RemoveDevices(c)
  <2>1. /\ Finish(c) \/ To(c, "create") \/ To(c, "tidy") \/ To(c, "disable") \/ To(c, "expire")
        /\ issued' = issued
    BY <1>10 DEF SetUpAgain, ConfirmDevice, CheckCode, RemoveDevices, accountRows
  <2> QED
    BY <1>1, <1>2, <2>1
<1>11. CASE InsertAvatar(c)
  <2> DEFINE n == [at |-> "save", on |-> {"avatar"}, avatar |-> issued.avatar + 1]
  <2>1. \/ Finish(c)
        \/ Make("avatar") /\ Proceed(c, n)
    BY <1>11 DEF InsertAvatar, NextOf
  <2>2. n.at = "save" /\ n.avatar = issued.avatar + 1
    OBVIOUS
  <2>3. ASSUME Make("avatar"), Proceed(c, n) PROVE InHand(errand'[c], issued')
    <3>1. errand'[c] = n
      BY <2>3, OthersStand DEF AccountsShape, Proceed
    <3>2. issued'.avatar = issued.avatar + 1 /\ issued.avatar \in Nat
      BY <2>3 DEF Make, AccountsShape, AccountsBound
    <3>3. n.avatar \in 1..issued'.avatar
      BY <2>2, <3>2
    <3> HIDE DEF n
    <3> QED
      BY <2>2, <3>1, <3>3 DEF InHand
  <2> QED
    BY <1>1, <2>1, <2>3
<1> QED
  BY <1>3, <1>4, <1>5, <1>6, <1>7, <1>8, <1>9, <1>10, <1>11 DEF Work

LEMMA RequestInHand ==
    ASSUME AccountsShape, AccountsBound, NEW c \in Clerks, AccountRequest(c)
    PROVE  InHand(errand'[c], issued)
<1>1. PICK next : Asks(c, next)
  BY RequestAsks
<1>2. errand'[c] = next
  BY <1>1, RequestStep
<1>3. next.at \in {"row", "address"} => next.row.email \in Addresses
  BY <1>1 DEF Asks, AccountsBound
<1>4. next.at \in {"confirm", "check"} => next.device \in 1..issued.device
  BY <1>1 DEF Asks, AccountsBound, InForce
<1>5. /\ next.at = "demote" => next.address \in Addresses
      /\ next.at = "unshow" => next.others \subseteq 1..issued.avatar
  <2>1. ASSUME NEW n, Take(c, n) PROVE next = n
    BY <1>2, <2>1, OthersStand DEF AccountsShape, Take
  <2>2. ASSUME NEW s, \/ SaveProfile(c, s) \/ UpdatePreferences(c, s) \/ ChangePassword(c, s)
        PROVE  next.at = "row"
    <3>1. ASSUME NEW fields, SetField(c, s, fields) PROVE next.at = "row"
      BY <2>1, <3>1 DEF SetField
    <3>2. CASE ChangePassword(c, s)
      <4>1. PICK u \in user : Take(c, [at |-> "row", on |-> {"row"}, row |-> u, field |-> "password",
                                      value |-> asked + 1, session |-> s])
        BY <3>2 DEF ChangePassword
      <4> DEFINE n == [at |-> "row", on |-> {"row"}, row |-> u, field |-> "password",
                       value |-> asked + 1, session |-> s]
      <4>2. n.at = "row" /\ Take(c, n)
        BY <4>1
      <4> HIDE DEF n
      <4> QED
        BY <2>1, <4>2
    <3> QED
      BY <2>2, <3>1, <3>2 DEF SaveProfile, UpdatePreferences
  <2>3. ASSUME NEW s, AddEmail(c, s) \/ Logout(c, s) PROVE next.at = "none"
    BY <2>1, <2>3 DEF AddEmail, Logout, NoErrand
  <2>4. ASSUME NEW s, DeleteUser(c, s) \/ SetUp(c, s) \/ UploadAvatar(c, s)
        PROVE  next.at \in {"delete", "setup", "avatar"}
    <3>1. \E n : Take(c, n) /\ n.at \in {"delete", "setup", "avatar"}
      BY <2>4 DEF DeleteUser, SetUp, UploadAvatar
    <3> QED
      BY <2>1, <3>1
  <2>5. ASSUME NEW s, DeleteEmail(c, s) PROVE next.at = "drop"
    BY <2>1, <2>5 DEF DeleteEmail
  <2>6. ASSUME NEW s, Verify(c, s) PROVE next.at = "confirm"
    BY <2>1, <2>6 DEF Verify
  <2>7. ASSUME NEW s, Disable(c, s) PROVE next.at = "check"
    BY <2>1, <2>7 DEF Disable
  <2>8. CASE Login(c)
    BY <2>1, <2>8 DEF Login
  <2>9. ASSUME NEW s, PrimaryEmail(c, s) PROVE next.at = "demote" /\ next.address \in Addresses
    <3>1. PICK a \in DOMAIN address : Take(c, [at |-> "demote", on |-> {"row", "mail"}, address |-> a])
      BY <2>9 DEF PrimaryEmail
    <3>2. next = [at |-> "demote", on |-> {"row", "mail"}, address |-> a]
      BY <2>1, <3>1
    <3>3. a \in Addresses
      BY DEF AccountsBound
    <3> QED
      BY <3>2, <3>3
  <2>10. ASSUME NEW s, DeleteAvatar(c, s)
         PROVE  next.at = "unshow" /\ next.others \subseteq 1..issued.avatar
    <3>1. PICK a \in avatar :
             Take(c, [at |-> "unshow", on |-> {"avatar"}, avatar |-> a, others |-> avatar \ {a}])
      BY <2>10 DEF DeleteAvatar
    <3>2. next = [at |-> "unshow", on |-> {"avatar"}, avatar |-> a, others |-> avatar \ {a}]
      BY <2>1, <3>1
    <3>3. avatar \ {a} \subseteq 1..issued.avatar
      BY DEF AccountsBound
    <3> QED
      BY <3>2, <3>3
  <2> QED
    BY <2>2, <2>3, <2>4, <2>5, <2>6, <2>7, <2>8, <2>9, <2>10 DEF AccountRequest
<1>6. next.at \notin {"device", "code", "open", "promote", "email", "save"}
  BY <1>1 DEF Asks
<1> QED
  BY <1>2, <1>3, <1>4, <1>5, <1>6 DEF InHand

\* Addresses.
LEMMA AddressesBound ==
    ASSUME AccountsShape, AccountsBound, AccountsNext
    PROVE  DOMAIN address' \subseteq Addresses /\ \A u \in user' : u.email \in Addresses
<1>1. DOMAIN address \subseteq Addresses /\ \A u \in user : u.email \in Addresses
  BY DEF AccountsBound
<1>2. ASSUME NEW a \in Addresses, NEW r, address' = Put(address, a, r)
      PROVE  DOMAIN address' \subseteq Addresses
  BY <1>1, <1>2 DEF Put
<1>3. ASSUME UNCHANGED address PROVE DOMAIN address' \subseteq Addresses
  BY <1>1, <1>3
<1>4. ASSUME NEW c \in Clerks, AccountRequest(c)
      PROVE  DOMAIN address' \subseteq Addresses /\ user' = user
  <2>1. user' = user
    BY <1>4, RequestAsks DEF Asks
  <2>2. \/ UNCHANGED address
        \/ \E a \in Addresses : address' = Put(address, a, [primary |-> FALSE, verified |-> FALSE])
    BY <1>4 DEF AccountRequest, SaveProfile, UpdatePreferences, SetField, ChangePassword, DeleteUser,
                AddEmail, DeleteEmail, PrimaryEmail, Logout, SetUp, Verify, Disable, UploadAvatar,
                DeleteAvatar, Login, accountRows
  <2> QED
    BY <1>2, <1>3, <2>1, <2>2
<1>5. ASSUME NEW c \in Clerks, Work(c) PROVE DOMAIN address' \subseteq Addresses
  <2>1. CASE Promote(c)
    <3>1. errand[c].address \in Addresses
      BY <2>1 DEF Promote, AccountsBound, InHand
    <3> QED
      BY <1>2, <1>3, <2>1, <3>1 DEF Promote
  <2>2. CASE LoginAddress(c)
    <3>1. errand[c].row.email \in Addresses
      BY <2>2 DEF LoginAddress, AccountsBound, InHand
    <3> QED
      BY <1>2, <1>3, <2>2, <3>1 DEF LoginAddress
  <2>3. CASE Demote(c)
    BY <1>1, <2>3 DEF Demote
  <2>4. CASE DropAddress(c)
    BY <1>1, <2>4 DEF DropAddress, Cut
  <2>5. CASE RemoveUser(c)
    BY <2>5 DEF RemoveUser
  <2>6. CASE ~(Promote(c) \/ LoginAddress(c) \/ Demote(c) \/ DropAddress(c) \/ RemoveUser(c))
    <3>1. UNCHANGED address
      BY <1>5, <2>6 DEF Work, WriteUser, Rehash, WriteEmail, LoginDevice, LoginCode, OpenSession,
         SetUpAgain, CreateDevice, ConfirmDevice, TidyDevices, CheckCode, RemoveDevices,
         ExpireSessions, InsertAvatar, SaveAvatar, RemoveAvatar, accountRows
    <3> QED
      BY <1>3, <3>1
  <2> QED
    BY <2>1, <2>2, <2>3, <2>4, <2>5, <2>6
<1>6. ASSUME NEW c \in Clerks, Work(c), NEW u \in user' PROVE u.email \in Addresses
  <2>1. CASE WriteUser(c)
    <3> DEFINE e == errand[c]
    <3>1. e.at = "row" /\ u = [e.row EXCEPT !.field[e.field] = e.value]
      BY <1>6, <2>1 DEF WriteUser
    <3>2. e.row.email \in Addresses /\ e.row = [field |-> e.row.field, email |-> e.row.email]
      BY <3>1 DEF AccountsBound, InHand, AccountsShape, ErrandRight, UserRight
    <3> HIDE DEF e
    <3> QED
      BY <3>1, <3>2
  <2>2. CASE WriteEmail(c)
    <3>1. errand[c].address \in Addresses
      BY <2>2 DEF WriteEmail, AccountsBound, InHand
    <3>2. PICK v \in user : u = [v EXCEPT !.email = errand[c].address]
      BY <1>6, <2>2 DEF WriteEmail
    <3>3. v = [field |-> v.field, email |-> v.email]
      BY DEF AccountsShape, UserRight
    <3> QED
      BY <3>1, <3>2, <3>3
  <2>3. CASE ~(WriteUser(c) \/ WriteEmail(c))
    <3>1. user' = user \/ user' = {}
      BY <1>6, <2>3 DEF Work, Rehash, RemoveUser, DropAddress, Demote, Promote, LoginAddress,
         LoginDevice, LoginCode, OpenSession, SetUpAgain, CreateDevice, ConfirmDevice, TidyDevices,
         CheckCode, RemoveDevices, ExpireSessions, InsertAvatar, SaveAvatar, RemoveAvatar, accountRows
    <3> QED
      BY <1>1, <1>6, <3>1
  <2> QED
    BY <2>1, <2>2, <2>3
<1>7. CASE ConfirmEmail
  <2>1. PICK a \in DOMAIN address :
          /\ address' = [address EXCEPT ![a].verified = TRUE, ![a].primary = Primaries = {}]
          /\ user' = IF Primaries = {} THEN {[u EXCEPT !.email = a] : u \in user} ELSE user
    BY <1>7 DEF ConfirmEmail
  <2>2. DOMAIN address' = DOMAIN address
    BY <2>1
  <2>3. ASSUME NEW u \in user' PROVE u.email \in Addresses
    <3>1. CASE user' = user
      BY <1>1, <2>3, <3>1
    <3>2. ASSUME NEW v \in user, u = [v EXCEPT !.email = a] PROVE u.email \in Addresses
      <4>1. v = [field |-> v.field, email |-> v.email]
        BY DEF AccountsShape, UserRight
      <4> QED
        BY <1>1, <3>2, <4>1
    <3> QED
      BY <2>1, <2>3, <3>1, <3>2
  <2> QED
    BY <1>1, <2>2, <2>3
<1>8. CASE \E c \in Clerks : Break(c)
  BY <1>1, <1>8 DEF Break, accountRows
<1> QED
  BY <1>1, <1>4, <1>5, <1>6, <1>7, <1>8 DEF AccountsNext, AccountRequest, Work

\* Devices and avatars.
LEMMA NumbersBound ==
    ASSUME AccountsShape, AccountsBound, AccountsNext
    PROVE  DOMAIN device' \subseteq 1..issued'.device /\ avatar' \subseteq 1..issued'.avatar
<1>1. /\ issued'.device \in Nat /\ issued'.avatar \in Nat
      /\ 1..issued.device \subseteq 1..issued'.device /\ 1..issued.avatar \subseteq 1..issued'.avatar
      /\ DOMAIN device \subseteq 1..issued.device /\ avatar \subseteq 1..issued.avatar
  BY IssuedGrows DEF AccountsBound
<1>2. ASSUME DOMAIN device' \subseteq DOMAIN device PROVE DOMAIN device' \subseteq 1..issued'.device
  BY <1>1, <1>2
<1>3. ASSUME avatar' \subseteq avatar PROVE avatar' \subseteq 1..issued'.avatar
  BY <1>1, <1>3
<1>4. ASSUME NEW kind \in {"device", "avatar"}, Make(kind)
      PROVE  issued'[kind] = issued[kind] + 1 /\ issued[kind] + 1 \in 1..issued'[kind]
  <2>1. /\ issued = [device |-> issued.device, avatar |-> issued.avatar, session |-> issued.session]
        /\ issued.device \in Nat /\ issued.avatar \in Nat
    BY DEF AccountsShape, AccountsBound
  <2>2. issued'[kind] = issued[kind] + 1
    BY <1>4, <2>1 DEF Make
  <2> QED
    BY <2>1, <2>2
<1>5. CASE (\E c \in Clerks : AccountRequest(c) \/ Break(c)) \/ ConfirmEmail
  <2>1. ASSUME NEW c \in Clerks, AccountRequest(c) PROVE device' = device /\ avatar' \subseteq avatar
    BY <2>1, RequestAsks DEF Asks
  <2>2. ASSUME NEW c \in Clerks, Break(c) PROVE device' = device /\ avatar' = avatar
    BY <2>2 DEF Break, accountRows
  <2>3. ConfirmEmail => device' = device /\ avatar' = avatar
    BY DEF ConfirmEmail
  <2> QED
    BY <1>2, <1>3, <1>5, <2>1, <2>2, <2>3
<1>6. ASSUME NEW c \in Clerks, Work(c) PROVE DOMAIN device' \subseteq 1..issued'.device
  <2>1. CASE LoginCode(c) \/ ConfirmDevice(c) \/ CheckCode(c)
    <3>1. errand[c].device \in 1..issued.device
      BY <2>1 DEF LoginCode, ConfirmDevice, CheckCode, AccountsBound, InHand
    <3>2. \E confirmed : SavesDevice(errand[c].device, confirmed)
      BY <2>1 DEF LoginCode, ConfirmDevice, CheckCode
    <3>3. DOMAIN device' \subseteq DOMAIN device \cup {errand[c].device}
      BY <3>2 DEF SavesDevice, Put
    <3> QED
      BY <1>1, <3>1, <3>3
  <2>2. CASE CreateDevice(c)
    <3>1. \/ device' = device
          \/ Make("device") /\ device' = Put(device, issued.device + 1, FALSE)
      BY <2>2 DEF CreateDevice, NextOf
    <3>2. ASSUME Make("device"), device' = Put(device, issued.device + 1, FALSE)
          PROVE  DOMAIN device' \subseteq 1..issued'.device
      <4>1. issued.device + 1 \in 1..issued'.device
        BY <1>4, <3>2
      <4>2. DOMAIN device' = DOMAIN device \cup {issued.device + 1}
        BY <3>2 DEF Put
      <4> QED
        BY <1>1, <4>1, <4>2
    <3> QED
      BY <1>2, <3>1, <3>2
  <2>3. CASE TidyDevices(c) \/ RemoveDevices(c) \/ RemoveUser(c)
    BY <1>2, <2>3 DEF TidyDevices, RemoveDevices, RemoveUser, Cut
  <2>4. CASE ~(LoginCode(c) \/ ConfirmDevice(c) \/ CheckCode(c) \/ CreateDevice(c)
               \/ TidyDevices(c) \/ RemoveDevices(c) \/ RemoveUser(c))
    <3>1. device' = device
      BY <1>6, <2>4 DEF Work, WriteUser, Rehash, DropAddress, Demote, Promote, WriteEmail,
         LoginAddress, LoginDevice, OpenSession, SetUpAgain, ExpireSessions, InsertAvatar,
         SaveAvatar, RemoveAvatar, accountRows
    <3> QED
      BY <1>2, <3>1
  <2> QED
    BY <2>1, <2>2, <2>3, <2>4
<1>7. ASSUME NEW c \in Clerks, Work(c) PROVE avatar' \subseteq 1..issued'.avatar
  <2>1. CASE InsertAvatar(c)
    <3>1. \/ avatar' = avatar
          \/ Make("avatar") /\ avatar' = avatar \cup {issued.avatar + 1}
      BY <2>1 DEF InsertAvatar, NextOf
    <3>2. Make("avatar") => issued.avatar + 1 \in 1..issued'.avatar
      BY <1>4
    <3> QED
      BY <1>1, <3>1, <3>2
  <2>2. CASE SaveAvatar(c)
    <3>1. errand[c].avatar \in 1..issued.avatar
      BY <2>2 DEF SaveAvatar, AccountsBound, InHand
    <3> QED
      BY <1>1, <2>2, <3>1 DEF SaveAvatar
  <2>3. CASE RemoveAvatar(c)
    <3>1. errand[c].others \subseteq 1..issued.avatar
      BY <2>3 DEF RemoveAvatar, AccountsBound, InHand
    <3> QED
      BY <1>1, <2>3, <3>1 DEF RemoveAvatar
  <2>4. CASE ~(InsertAvatar(c) \/ SaveAvatar(c) \/ RemoveAvatar(c))
    <3>1. avatar' \subseteq avatar
      BY <1>7, <2>4 DEF Work, WriteUser, Rehash, RemoveUser, DropAddress, Demote, Promote,
         WriteEmail, LoginAddress, LoginDevice, LoginCode, OpenSession, SetUpAgain, CreateDevice,
         ConfirmDevice, TidyDevices, CheckCode, RemoveDevices, ExpireSessions, accountRows
    <3> QED
      BY <1>3, <3>1
  <2> QED
    BY <2>1, <2>2, <2>3, <2>4
<1> QED
  BY <1>5, <1>6, <1>7 DEF AccountsNext, AccountRequest, Work

LEMMA AccountsBoundStep ==
    ASSUME AccountsShape, AccountsBound, [AccountsNext]_accountVars PROVE AccountsBound'
<1>1. CASE UNCHANGED accountVars
  BY <1>1 DEF accountVars, AccountsBound, InHand
<1>2. CASE AccountsNext
  <2>1. /\ DOMAIN address' \subseteq Addresses /\ \A u \in user' : u.email \in Addresses
        /\ DOMAIN device' \subseteq 1..issued'.device /\ avatar' \subseteq 1..issued'.avatar
        /\ issued'.device \in Nat /\ issued'.avatar \in Nat
    BY <1>2, AddressesBound, NumbersBound, IssuedGrows
  <2>2. asked' <= MaxAsked
    <3>1. asked \in Nat /\ MaxAsked \in Nat /\ asked <= MaxAsked
      BY AccountsAssumption DEF AccountsShape, AccountsBound
    <3>2. ASSUME NEW c \in Clerks, AccountRequest(c) PROVE asked' <= MaxAsked
      <4>1. \E next : Take(c, next)
        BY <3>2, RequestAsks DEF Asks
      <4> QED
        BY <3>1, <4>1 DEF Take
    <3>3. ASSUME NEW c \in Clerks, Work(c) PROVE asked' = asked
      BY <3>3, WorkWorks DEF Works, Proceed
    <3>4. (\E c \in Clerks : Break(c)) \/ ConfirmEmail => asked' = asked
      BY DEF Break, ConfirmEmail
    <3> QED
      BY <1>2, <3>1, <3>2, <3>3, <3>4 DEF AccountsNext, AccountRequest, Work
  <2>3. unsettled' \subseteq Topics
    <3>1. unsettled \subseteq Topics /\ \A c \in Clerks : errand[c].on \subseteq Topics
      BY OnTopics DEF AccountsBound
    <3>2. ASSUME NEW c \in Clerks, AccountRequest(c) PROVE unsettled' \subseteq Topics
      <4>1. PICK next : Take(c, next)
        BY <3>2, RequestAsks DEF Asks
      <4> QED
        BY <3>1, <4>1 DEF Take
    <3>3. ASSUME NEW c \in Clerks, Work(c) PROVE unsettled' = unsettled
      BY <3>3, WorkWorks DEF Works, Proceed
    <3>4. ASSUME NEW c \in Clerks, Break(c) PROVE unsettled' \subseteq Topics
      BY <3>1, <3>4 DEF Break
    <3>5. ConfirmEmail => unsettled' = unsettled
      BY DEF ConfirmEmail
    <3> QED
      BY <1>2, <3>1, <3>2, <3>3, <3>4, <3>5 DEF AccountsNext, AccountRequest, Work
  <2>4. guarded' \in BOOLEAN
    <3>1. ASSUME NEW c \in Clerks, AccountRequest(c) PROVE guarded' = guarded
      BY <3>1, RequestAsks DEF Asks
    <3>2. ASSUME NEW c \in Clerks, Work(c) PROVE guarded' \in {guarded, TRUE, FALSE}
      BY <3>2 DEF Work, WriteUser, Rehash, RemoveUser, DropAddress, Demote, Promote, WriteEmail,
         LoginAddress, LoginDevice, LoginCode, OpenSession, SetUpAgain, CreateDevice, ConfirmDevice,
         TidyDevices, CheckCode, RemoveDevices, ExpireSessions, InsertAvatar, SaveAvatar, RemoveAvatar,
         accountPast
    <3>3. (\E c \in Clerks : Break(c)) \/ ConfirmEmail => guarded' = guarded
      BY DEF Break, ConfirmEmail, accountPast
    <3>4. guarded \in BOOLEAN
      BY DEF AccountsBound
    <3> QED
      BY <1>2, <3>1, <3>2, <3>3, <3>4 DEF AccountsNext, AccountRequest, Work
  <2>5. ASSUME NEW d \in Clerks, errand'[d] = errand[d] PROVE InHand(errand'[d], issued')
    <3>1. InHand(errand[d], issued)
      BY DEF AccountsBound
    <3> QED
      BY <1>2, <2>5, <3>1, IssuedGrows DEF InHand
  <2>6. ASSUME NEW d \in Clerks PROVE InHand(errand'[d], issued')
    <3>1. ASSUME NEW c \in Clerks, AccountRequest(c) \/ Work(c) \/ Break(c)
          PROVE  InHand(errand'[d], issued')
      <4>1. CASE d # c
        BY <2>5, <3>1, <4>1, ErrandsStep
      <4>2. CASE d = c
        <5>1. CASE AccountRequest(c)
          <6>1. issued' = issued
            BY <5>1, RequestAsks DEF Asks
          <6> QED
            BY <4>2, <5>1, <6>1, RequestInHand
        <5>2. CASE Work(c)
          BY <4>2, <5>2, WorkInHand
        <5>3. CASE Break(c)
          BY <4>2, <5>3, BreakStep, NothingInHand
        <5> QED
          BY <3>1, <5>1, <5>2, <5>3
      <4> QED
        BY <4>1, <4>2
    <3>2. ConfirmEmail => errand' = errand
      BY DEF ConfirmEmail
    <3> QED
      BY <1>2, <2>5, <3>1, <3>2 DEF AccountsNext, AccountRequest, Work
  <2> QED
    BY <2>1, <2>2, <2>3, <2>4, <2>6 DEF AccountsBound
<1> QED
  BY <1>1, <1>2

\* Addresses, devices, avatars and sessions have the names and numbers that were given out,
\* whatever two requests do to one another: a row that is written again is one there was (the
\* views of user/views.py).
THEOREM AccountsTypeCorrect == AccountsSpec => []AccountsTypeOK
<1>1. AccountsInit => AccountsBound
  <2> SUFFICES ASSUME AccountsInit PROVE AccountsBound
    OBVIOUS
  <2>1. /\ asked = 0 /\ MaxAsked \in Nat /\ guarded \in BOOLEAN /\ unsettled = {} /\ avatar = {}
        /\ \A c \in Clerks : errand[c] = NoErrand
    BY AccountsAssumption DEF AccountsInit
  <2>2. DOMAIN address \subseteq Addresses
    BY AccountsAssumption DEF AccountsInit
  <2>3. \A u \in user : u.email \in Addresses
    BY AccountsAssumption DEF AccountsInit
  <2>4. DOMAIN device = 1..issued.device /\ issued.device \in Nat /\ issued.avatar = 0
    <3>1. issued.device = Cardinality(DOMAIN device) /\ issued.avatar = 0
      BY DEF AccountsInit
    <3>2. CASE guarded
      <4>1. DOMAIN device = {1}
        BY <3>2 DEF AccountsInit
      <4>2. Cardinality({1}) = 1
        BY FS_Singleton
      <4> QED
        BY <3>1, <4>1, <4>2
    <3>3. CASE ~guarded
      <4>1. DOMAIN device = {}
        BY <3>3 DEF AccountsInit
      <4>2. Cardinality({}) = 0
        BY FS_EmptySet
      <4> QED
        BY <3>1, <4>1, <4>2
    <3> QED
      BY <3>2, <3>3
  <2> QED
    BY <2>1, <2>2, <2>3, <2>4, NothingInHand DEF AccountsBound
<1>2. AccountsInv => AccountsShape
  BY DEF AccountsInv
<1>3. AccountsShape /\ AccountsBound /\ [AccountsNext]_accountVars => AccountsBound'
  BY AccountsBoundStep
<1>4. AccountsShape /\ AccountsBound => AccountsTypeOK
  <2> SUFFICES ASSUME AccountsShape, AccountsBound PROVE AccountsTypeOK
    OBVIOUS
  <2>1. Cardinality(user) <= 1
    <3>1. \A a, b \in user : a = b
      BY DEF AccountsShape
    <3> QED
      BY <3>1, OneAtMost
  <2>2. asked \in 0..MaxAsked /\ 0..asked \subseteq 0..MaxAsked
    BY AccountsAssumption DEF AccountsShape, AccountsBound
  <2>3. set \in [Fields -> 0..MaxAsked]
    BY <2>2 DEF AccountsShape
  <2> QED
    BY <2>1, <2>2, <2>3 DEF AccountsShape, AccountsBound, AccountsTypeOK
<1> QED
  BY <1>1, <1>2, <1>3, <1>4, AccountsInvInit, AccountsInvNext, PTL DEF AccountsSpec
=============================================================================
