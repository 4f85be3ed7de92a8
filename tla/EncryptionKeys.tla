--------------------------- MODULE EncryptionKeys ---------------------------
(***************************************************************************)
(* The key record of one account, the root of its end-to-end encryption:   *)
(* get_encryption_key and save_encryption_key (src/fiduswriter/user/       *)
(* views.py), called by several devices of the account at a time.          *)
(*                                                                         *)
(* What a record holds besides its public key, the secrets wrapped for a   *)
(* passphrase, is abstracted to the number of the save that wrote it.      *)
(***************************************************************************)
EXTENDS Naturals

CONSTANTS Devices,      \* browsers logged in to the account
          MaxKeySaves,  \* bound on the calls of save_encryption_key
          MaxResets     \* bound on the records an administrator deletes

ASSUME KeyBoundAssumption == MaxKeySaves \in Nat /\ MaxResets \in Nat

VARIABLES
    record,     \* the row: its id, public key, contents and version
    known,      \* the record each device believes to be the account's
    call,       \* what is left of each device's call at the server
    keySaves, resets,   \* counters for the bounds
    unseen,     \* history: was a record replaced that its writer had not seen?
    restored    \* history: was one created with keys that had been reset?

keysVars == <<record, known, call, keySaves, resets, unseen, restored>>

NoRecord == [id |-> 0, key |-> 0, wraps |-> 0, version |-> 0]
Free == [at |-> "free"]

KeysInit ==
    /\ record = NoRecord
    /\ known = [d \in Devices |-> NoRecord]
    /\ call = [d \in Devices |-> Free]
    /\ keySaves = 0 /\ resets = 0 /\ unseen = FALSE /\ restored = FALSE

Exists == record # NoRecord

\* What a device learns of a record: all but the id of the row.
Contents(r) == [r EXCEPT !.id = 0]

\* get_encryption_key.
Get(d) ==
    /\ call[d] = Free
    /\ known' = [known EXCEPT ![d] = Contents(record)]
    /\ UNCHANGED <<record, call, keySaves, resets, unseen, restored>>

\* fault: the key that is replaced need not be named
AnyKey(d) == TRUE

\* The device names the public key it replaces.
NamesKey(d) == known[d].key = record.key

\* save_encryption_key, up to what it decides from the record it reads: with new keys,
\* or with the old ones wrapped anew.  A device that knows of no record has none to name.
Save(d) == \E key \in {keySaves + 1, known[d].key} \ {0} :
    /\ call[d] = Free
    /\ keySaves < MaxKeySaves /\ keySaves' = keySaves + 1
    /\ call' = [call EXCEPT ![d] =
          IF ~Exists THEN [at |-> "create", key |-> key, wraps |-> keySaves']
          ELSE IF known[d] # NoRecord /\ NamesKey(d)
          THEN [at |-> "replace", key |-> key, wraps |-> keySaves', id |-> record.id,
                expected |-> known[d].version]
          ELSE Free]
    /\ UNCHANGED <<record, known, resets, unseen, restored>>

\* There was no record: one is created, or the one somebody else has created since is
\* found.  The device is told the same, and takes its own keys for the account's.
Create(d) ==
    LET made == [id |-> call[d].wraps, key |-> call[d].key, wraps |-> call[d].wraps,
                 version |-> 0]
    IN  /\ call[d].at = "create"
        /\ record' = IF Exists THEN record ELSE made
        /\ known' = [known EXCEPT ![d] = [Contents(made) EXCEPT !.version = record'.version]]
        /\ call' = [call EXCEPT ![d] = Free]
        /\ restored' = (restored \/ (~Exists /\ made.key # made.wraps))
        /\ UNCHANGED <<keySaves, resets, unseen>>

\* The update finds the row that was read, in the version the device had seen.
SameRecord(d) == record.id = call[d].id /\ record.version = call[d].expected

Replace(d) ==
    LET made == [id |-> call[d].id, key |-> call[d].key, wraps |-> call[d].wraps,
                 version |-> call[d].expected + 1]
    IN  /\ call[d].at = "replace"
        /\ SameRecord(d)
        /\ record' = made
        /\ known' = [known EXCEPT ![d] = Contents(made)]
        /\ unseen' = (unseen \/ known[d] # Contents(record))
        /\ call' = [call EXCEPT ![d] = Free]
        /\ UNCHANGED <<keySaves, resets, restored>>

Conflict(d) ==
    /\ call[d].at = "replace"
    /\ ~SameRecord(d)
    /\ call' = [call EXCEPT ![d] = Free]
    /\ UNCHANGED <<record, known, keySaves, resets, unseen, restored>>

\* An administrator deletes the record.
Reset ==
    /\ Exists
    /\ resets < MaxResets /\ resets' = resets + 1
    /\ record' = NoRecord
    /\ UNCHANGED <<known, call, keySaves, unseen, restored>>

KeysNext == Reset \/ \E d \in Devices :
            Get(d) \/ Save(d) \/ Create(d) \/ Replace(d) \/ Conflict(d)

KeysSpec == KeysInit /\ [][KeysNext]_keysVars

-----------------------------------------------------------------------------
Record == [id : Nat, key : Nat, wraps : Nat, version : Nat]

\* Types; only a record that exists has an id.
KeysTypeOK ==
    /\ record \in Record /\ (Exists => record.id > 0 /\ record.key > 0)
    /\ known \in [Devices -> Record]
    /\ call \in [Devices -> [at : {"free"}]
          \cup [at : {"create"}, key : Nat \ {0}, wraps : Nat \ {0}]
          \cup [at : {"replace"}, key : Nat \ {0}, wraps : Nat \ {0}, id : Nat, expected : Nat]]
    /\ {unseen, restored} \subseteq BOOLEAN

\* Nobody replaces keys he has not seen: not those of a device that saved in between, nor
\* those that won when two devices created keys at the same time and both were told that
\* theirs were stored, nor those made after a reset, unless the same public key came back
\* in it (save_encryption_key).
ReplacedWereSeen == unseen => restored
=============================================================================
