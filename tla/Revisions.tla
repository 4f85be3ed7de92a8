----------------------------- MODULE Revisions -----------------------------
(***************************************************************************)
(* Saved revisions of a document: a row each and a file in the application *)
(* storage named after the row (src/fiduswriter/document/views.py 1174,    *)
(* 2471, models.py 362-446, signals.py), and the command that puts files   *)
(* no row names aside (document/management/commands/cleanup_revisions.py). *)
(* Rows and files change in statements of their own.  Older revisions have *)
(* their file in the media folder, from where it is moved when asked for.  *)
(***************************************************************************)
EXTENDS Integers, FiniteSets

CONSTANTS Servants,        \* processes that serve requests
          OldRevisions,    \* revisions 1 .. OldRevisions are from before the move
          MaxRevisions,    \* bound on the revisions made
          MaxChanges       \* bound on the requests and commands

ASSUME RevisionsAssumption ==
    {OldRevisions, MaxRevisions, MaxChanges} \subseteq Nat /\ OldRevisions <= MaxRevisions

VARIABLES
    revision,    \* the rows: which file of its own each one names, 0 for none
    uploads,     \* number of the last row made
    hasDocument, \* is the document there?
    storage,      \* files in the storage: of which revision, and which of its files
    legacy,      \* files in the media folder
    quarantine,  \* files put aside: the file, and how often its name was taken
    duty,        \* the rest of the request each servant serves
    cleaner,     \* the command at work
    changes,     \* requests and commands begun
    kept,        \* history: revisions whose file was once stored
    ruined,      \* history: those whose file a replacement deleted that then failed
    failed,      \* history: did a request fail?
    tangled      \* history: did two of them cross?

revisionVars == <<revision, uploads, hasDocument, storage, legacy, quarantine, duty, cleaner,
                  changes, kept, ruined, failed, tangled>>

NoDuty == [at |-> "none"]
NoFile == 0

RevisionsInit ==
    /\ revision = [r \in 1..OldRevisions |-> 1]
    /\ uploads = OldRevisions /\ hasDocument = TRUE
    /\ storage = {} /\ legacy = {<<r, 1>> : r \in 1..OldRevisions} /\ quarantine = {}
    /\ duty = [w \in Servants |-> NoDuty] /\ cleaner = NoDuty
    /\ changes = 0 /\ kept = 1..OldRevisions /\ ruined = {} /\ failed = FALSE /\ tangled = FALSE

Changing == changes < MaxChanges /\ changes' = changes + 1
Go(w, next) == duty' = [duty EXCEPT ![w] = next]
\* One of these revisions is being replaced: its file is gone, its row still names it.
Replaced(rs) == \E w \in Servants : duty[w].at = "blank" /\ duty[w].on \cap rs # {}
Cleaning == cleaner.at \in {"read", "listed"}
Writes(next) == next.at \in {"file", "name"}

-----------------------------------------------------------------------------
(* Requests.                                                               *)

\* upload_revision saves the row without a file first, as the file is named after it.
UploadRevision(w) ==
    /\ duty[w] = NoDuty /\ Changing /\ hasDocument /\ uploads < MaxRevisions
    /\ uploads' = uploads + 1
    /\ revision' = [r \in DOMAIN revision \cup {uploads'} |->
                       IF r = uploads' THEN NoFile ELSE revision[r]]
    /\ Go(w, [at |-> "file", on |-> {uploads'}])
    /\ UNCHANGED <<hasDocument, storage, legacy, quarantine, cleaner, kept, ruined, failed,
                   tangled>>

\* The second save writes the file, under another name if there is one of this name, ...
StoreFile(w) ==
    /\ duty[w].at = "file"
    /\ \E r \in duty[w].on, n \in 1..(Cardinality(storage) + 1) :
        /\ <<r, n>> \notin storage /\ \A j \in 1..(n - 1) : <<r, j>> \in storage
        /\ storage' = storage \cup {<<r, n>>} /\ Go(w, [at |-> "name", on |-> {r}, file |-> n])
    /\ tangled' = (tangled \/ Cleaning)
    /\ UNCHANGED <<revision, uploads, hasDocument, legacy, quarantine, cleaner, changes, kept, ruined,
                   failed>>

\* ... and the row with its name: the row is made again if it is gone, unless the document
\* is gone too (foreign key).
NameFile(w) ==
    /\ duty[w].at = "name"
    /\ LET there == DOMAIN revision \cup duty[w].on
       IN  IF hasDocument
           THEN /\ revision' = [r \in there |->
                        IF r \in duty[w].on THEN duty[w].file ELSE revision[r]]
                /\ kept' = kept \cup duty[w].on /\ ruined' = ruined \ duty[w].on /\ UNCHANGED failed
           ELSE failed' = TRUE /\ UNCHANGED <<revision, kept, ruined>>
    /\ Go(w, NoDuty)
    /\ UNCHANGED <<uploads, hasDocument, storage, legacy, quarantine, cleaner, changes, tangled>>

\* The file cannot be written, or the server goes down before it is: what was done stays.
FailRequest(w) ==
    /\ duty[w] # NoDuty
    /\ Go(w, NoDuty) /\ failed' = TRUE
    /\ ruined' = IF duty[w].at = "blank" THEN ruined \cup duty[w].on ELSE ruined
    /\ UNCHANGED <<revision, uploads, hasDocument, storage, legacy, quarantine, cleaner, changes,
                   kept, tangled>>

\* update_revision, when the format changes: the file is deleted, ...
UpdateRevision(w) ==
    /\ duty[w] = NoDuty /\ Changing
    /\ \E r \in DOMAIN revision :
        /\ revision[r] # NoFile
        /\ storage' = storage \ {<<r, revision[r]>>}
        /\ Go(w, [at |-> "blank", on |-> {r}])
        /\ tangled' = (tangled \/ Replaced({r}))
    /\ UNCHANGED <<revision, uploads, hasDocument, legacy, quarantine, cleaner, kept, ruined, failed>>

\* ... which saves the row without a file, and the new one is stored and named.
BlankRow(w) ==
    /\ duty[w].at = "blank"
    /\ IF hasDocument
       THEN /\ revision' = [r \in DOMAIN revision \cup duty[w].on |->
                               IF r \in duty[w].on THEN NoFile ELSE revision[r]]
            /\ Go(w, [duty[w] EXCEPT !.at = "file"]) /\ UNCHANGED failed
       ELSE Go(w, NoDuty) /\ failed' = TRUE /\ UNCHANGED revision
    /\ UNCHANGED <<uploads, hasDocument, storage, legacy, quarantine, cleaner, changes, kept, ruined,
                   tangled>>

\* The file a row names, in the storage or still in the media folder.
Reachable(r) == <<r, revision[r]>> \in storage \cup legacy

\* get_revision: a file that is still in the media folder is moved first
\* (ensure_revision_file).
GetRevision ==
    /\ \E r \in DOMAIN revision :
        LET f == <<r, revision[r]>> IN
        /\ Reachable(r) /\ f \notin storage
        /\ storage' = storage \cup {f} /\ legacy' = legacy \ {f}
        /\ tangled' = (tangled \/ Replaced({r}))
    /\ UNCHANGED <<revision, uploads, hasDocument, quarantine, duty, cleaner, changes, kept, ruined,
                   failed>>

\* The files that delete_revision_file will remove when the transaction has ended.
FilesOf(rs) == {<<r, revision[r]>> : r \in {x \in rs : revision[x] # NoFile}}

\* delete_revision, or the document is deleted with its revisions: the rows go, ...
DeleteRevisions(w) ==
    /\ duty[w] = NoDuty /\ Changing
    /\ \E rs \in {{r} : r \in DOMAIN revision} \cup {DOMAIN revision} :
        /\ revision' = [r \in DOMAIN revision \ rs |-> revision[r]]
        /\ \/ hasDocument' = hasDocument /\ Cardinality(rs) = 1
           \/ hasDocument /\ hasDocument' = FALSE /\ rs = DOMAIN revision
        /\ Go(w, [at |-> "remove", files |-> FilesOf(rs)])
        /\ tangled' = (tangled \/ Replaced(rs))
    /\ UNCHANGED <<uploads, storage, legacy, quarantine, cleaner, kept, ruined, failed>>

\* ... and then their files.
RemoveFiles(w) ==
    /\ duty[w].at = "remove"
    /\ storage' = storage \ duty[w].files
    /\ Go(w, NoDuty)
    /\ UNCHANGED <<revision, uploads, hasDocument, legacy, quarantine, cleaner, changes, kept,
                   ruined, failed, tangled>>

-----------------------------------------------------------------------------
(* The command.                                                            *)

\* The names the rows have are read once.
ReadNames(then) ==
    /\ cleaner = NoDuty /\ Changing
    /\ cleaner' = [at |-> then, names |-> FilesOf(DOMAIN revision)]
    /\ tangled' = (tangled \/ (then = "read" /\ \E w \in Servants : Writes(duty[w])))
    /\ UNCHANGED <<revision, uploads, hasDocument, storage, legacy, quarantine, duty, kept, ruined,
                   failed>>

\* fault: files in the media folder are looked up by their path, not by their name
OrphansByPath(names) == (storage \ names) \cup legacy

Orphans(names) == (storage \cup legacy) \ names

\* _scan lists the files no row named, ...
Scan ==
    /\ cleaner.at = "read"
    /\ cleaner' = [at |-> "listed", files |-> Orphans(cleaner.names)]
    /\ UNCHANGED <<revision, uploads, hasDocument, storage, legacy, quarantine, duty, changes, kept,
                   ruined, failed, tangled>>

\* ... which are moved one after the other, under a new name if the name is taken; the
\* command ends with the last, or with one that has gone.
MoveAside ==
    /\ cleaner.at = "listed"
    /\ \/ /\ cleaner.files = {}
          /\ cleaner' = NoDuty /\ UNCHANGED <<storage, legacy, quarantine>>
       \/ \E f \in cleaner.files :
            IF f \in storage \cup legacy
            THEN /\ storage' = storage \ {f}
                 /\ legacy' = (IF f \in storage THEN legacy ELSE legacy \ {f})
                 /\ quarantine' = quarantine \cup
                        {[file |-> f, renamed |-> Cardinality({q \in quarantine : q.file = f})]}
                 /\ cleaner' = [cleaner EXCEPT !.files = @ \ {f}]
            ELSE cleaner' = NoDuty /\ UNCHANGED <<storage, legacy, quarantine>>
    /\ UNCHANGED <<revision, uploads, hasDocument, duty, changes, kept, ruined, failed, tangled>>

\* --delete: what was put aside and no row names is listed ...
ListQuarantine ==
    /\ cleaner.at = "quarantine"
    /\ cleaner' = [at |-> "confirm",
                   files |-> {q \in quarantine : q.file \notin cleaner.names \/ q.renamed > 0}]
    /\ UNCHANGED <<revision, uploads, hasDocument, storage, legacy, quarantine, duty, changes, kept,
                   ruined, failed, tangled>>

\* ... and, if it is confirmed, deleted.
DeleteQuarantine ==
    /\ cleaner.at = "confirm"
    /\ quarantine' \in {quarantine, quarantine \ cleaner.files}
    /\ cleaner' = NoDuty
    /\ UNCHANGED <<revision, uploads, hasDocument, storage, legacy, duty, changes, kept, ruined,
                   failed, tangled>>

RevisionsNext ==
    \/ \E w \in Servants :
        \/ UploadRevision(w) \/ StoreFile(w) \/ NameFile(w) \/ FailRequest(w)
        \/ UpdateRevision(w) \/ BlankRow(w) \/ DeleteRevisions(w) \/ RemoveFiles(w)
    \/ GetRevision
    \/ \E then \in {"read", "quarantine"} : ReadNames(then)
    \/ Scan \/ MoveAside \/ ListQuarantine \/ DeleteQuarantine

RevisionsSpec == RevisionsInit /\ [][RevisionsNext]_revisionVars

-----------------------------------------------------------------------------
\* Rows and files are of revisions that were made.
RevisionsTypeOK ==
    /\ uploads \in OldRevisions..MaxRevisions /\ hasDocument \in BOOLEAN
    /\ DOMAIN revision \subseteq 1..uploads /\ \A r \in DOMAIN revision : revision[r] \in Nat
    /\ storage \cup legacy \cup {q.file : q \in quarantine} \subseteq (1..uploads) \X (Nat \ {NoFile})
    /\ changes \in 0..MaxChanges /\ kept \cup ruined \subseteq 1..uploads
    /\ failed \in BOOLEAN /\ tangled \in BOOLEAN

Calm == \A w \in Servants : duty[w] = NoDuty

\* Unless a file was being written next to the command, or a revision was deleted, moved or
\* replaced again while its row named the file that its replacement had deleted: the file a
\* row names is there, wherever it is kept, but while it is being replaced, and then for good
\* if that fails before the row is saved (update_revision deletes the old file first); and,
\* when no request failed and none is at work, each revision whose file was once stored still
\* names one, and no file is left in the storage that no row names.
RevisionsKept == ~tangled =>
    /\ \A r \in kept \cap DOMAIN revision :
          revision[r] = NoFile \/ Reachable(r) \/ Replaced({r}) \/ r \in ruined
    /\ Calm /\ ~failed =>
        /\ \A r \in kept \cap DOMAIN revision : revision[r] # NoFile
        /\ storage \subseteq FilesOf(DOMAIN revision)
=============================================================================
