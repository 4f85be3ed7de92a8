--------------------------- MODULE DirectEditing ---------------------------
(***************************************************************************)
(* Editing without a websocket (EDITOR_SAVE_MODE other than                *)
(* "collaborative"): editors load a document, save it as a whole and fetch *)
(* what others saved, with get_doc_data, save_document and get_doc_version *)
(* (src/fiduswriter/document/views.py).                                    *)
(*                                                                         *)
(* Each view reads the row, decides, and writes the whole row back, so     *)
(* that another request may come between the two.  A text is abstracted to *)
(* the set of edits in it; each save carries one.  The document is not     *)
(* encrypted.  The editors are not part of the repository: theirs take     *)
(* over what a loaded document or the diffs handed to them hold, keeping   *)
(* their own unsaved edit.                                                 *)
(***************************************************************************)
EXTENDS Integers, Sequences

CONSTANTS Editors,          \* browsers with the document open, or opening it
          DirectHistory,    \* DIRECT_SAVE_HISTORY_LENGTH (200)
          MaxDirectSaves    \* bound on the calls that save

ASSUME DirectAssumption == DirectHistory \in Nat \ {0} /\ MaxDirectSaves \in Nat

VARIABLES
    row,        \* the row: is there a text, which edits, version and diffs
    editor,     \* each editor: is it open, its text and version, its unsaved edit
    busy,       \* the rest of each editor's request at the server
    saves,      \* counter for the bound, and the number of the last edit
    stored,     \* history: edits whose save was answered with success
    crossed     \* history: was a row written back over one changed meanwhile, or a text replaced?

directVars == <<row, editor, busy, saves, stored, crossed>>

NotAtWork == [at |-> "no"]

DirectInit ==
    /\ row = [init |-> FALSE, text |-> {}, version |-> 0, diffs |-> <<>>]
    /\ editor = [e \in Editors |-> [open |-> FALSE, text |-> {}, version |-> 0, own |-> 0]]
    /\ busy = [e \in Editors |-> NotAtWork]
    /\ saves = 0 /\ stored = {} /\ crossed = FALSE

\* The last n of a list.
Last(s, n) == SubSeq(s, IF Len(s) > n THEN Len(s) - n + 1 ELSE 1, Len(s))

\* document.save: all fields are written, whatever became of the row that was read.
Overwrite(copy, was) ==
    /\ row' = copy
    /\ crossed' = (crossed \/ row # was)

Takes(e, r) == editor' = [editor EXCEPT ![e] =
    [@ EXCEPT !.open = TRUE, !.text = r.text, !.version = r.version]]

\* get_doc_data, for an editor that opens the document.  A document without a text is
\* given that of its template, ...
Load(e) ==
    /\ ~editor[e].open /\ busy[e] = NotAtWork
    /\ IF row.init THEN Takes(e, row) /\ UNCHANGED busy
                   ELSE /\ busy' = [busy EXCEPT ![e] = [at |-> "load", read |-> row]]
                        /\ UNCHANGED editor
    /\ UNCHANGED <<row, saves, stored, crossed>>

\* ... and written back.
LoadWrites(e) ==
    /\ busy[e].at = "load"
    /\ Overwrite([busy[e].read EXCEPT !.init = TRUE], busy[e].read)
    /\ Takes(e, row')
    /\ busy' = [busy EXCEPT ![e] = NotAtWork]
    /\ UNCHANGED <<saves, stored>>

\* fault: as many versions as there are diffs, whatever the versions
HasDiffsFor(v) == Len(row.diffs) > 0

\* The diffs kept reach back to the version of the editor.
ReachesBackTo(v) == v + Len(row.diffs) >= row.version

\* The diffs handed to an editor that has version v.
DiffsSince(v) == Last(row.diffs, row.version - v)

\* What an editor that is behind has after merging: by the diffs, or else from the text.
Merged(e) == editor[e].text \cup {DiffsSince(editor[e].version)[k] :
                                     k \in 1..Len(DiffsSince(editor[e].version))}

\* What an editor learns from get_doc_version, or from the refusal of a save.
Behind(e) == row.version > editor[e].version

\* get_doc_data, for an editor that has learnt that it is behind.
CatchUp(e) ==
    LET v == editor[e].version
    IN  /\ editor[e].open /\ busy[e] = NotAtWork
        /\ Behind(e)
        /\ editor' = [editor EXCEPT ![e] =
                [@ EXCEPT !.version = row.version,
                          !.text = IF ReachesBackTo(v) THEN Merged(e) ELSE row.text]]
        /\ UNCHANGED <<row, busy, saves, stored, crossed>>

\* The row has the version the save is based on.
SameVersion(e) == row.version = editor[e].version

\* save_document: the row is read and the versions compared; an editor that is behind is
\* refused and keeps its edit.
BeginDirectSave(e) ==
    LET edit == IF editor[e].own = 0 THEN saves + 1 ELSE editor[e].own
    IN  /\ editor[e].open /\ busy[e] = NotAtWork
        /\ saves < MaxDirectSaves /\ saves' = saves + 1
        /\ editor' = [editor EXCEPT ![e].own = edit]
        /\ busy' = [busy EXCEPT ![e] = IF SameVersion(e)
              THEN [at |-> "save", read |-> row] ELSE NotAtWork]
        /\ UNCHANGED <<row, stored, crossed>>

\* The row is written back, with the text of the editor, the next version and one diff more.
SaveWrites(e) ==
    LET was == busy[e].read
        edit == editor[e].own
        made == [init |-> TRUE, text |-> editor[e].text \cup {edit},
                 version |-> was.version + 1,
                 diffs |-> Last(Append(was.diffs, edit), DirectHistory)]
    IN  /\ busy[e].at = "save"
        /\ Overwrite(made, was)
        /\ editor' = [editor EXCEPT ![e] =
                [@ EXCEPT !.text = made.text, !.version = made.version, !.own = 0]]
        /\ busy' = [busy EXCEPT ![e] = NotAtWork]
        /\ stored' = stored \cup {edit}
        /\ UNCHANGED saves

\* import_doc: whoever may write the document, here with a browser that has no editor of it
\* open, replaces its text: the row is read ...
ImportDoc(e) ==
    /\ ~editor[e].open /\ busy[e] = NotAtWork
    /\ saves < MaxDirectSaves /\ saves' = saves + 1
    /\ busy' = [busy EXCEPT ![e] = [at |-> "import", read |-> row, edit |-> saves']]
    /\ UNCHANGED <<row, editor, stored, crossed>>

\* ... and written back, with the version and the diffs as they were: whatever there was is
\* gone, and an editor that has it open does not learn of it.
ImportWrites(e) ==
    LET was == busy[e].read
    IN  /\ busy[e].at = "import"
        /\ row' = [was EXCEPT !.init = TRUE, !.text = {busy[e].edit}]
        /\ crossed' = (crossed \/ row # was \/ was.init)
        /\ busy' = [busy EXCEPT ![e] = NotAtWork]
        /\ stored' = stored \cup {busy[e].edit}
        /\ UNCHANGED <<editor, saves>>

\* The maintenance pages of the staff bring documents to a new format: get_all_old_docs
\* sends them out, ...
ListOldDocs(e) ==
    /\ ~editor[e].open /\ busy[e] = NotAtWork /\ row.init
    /\ saves < MaxDirectSaves /\ saves' = saves + 1
    /\ busy' = [busy EXCEPT ![e] = [at |-> "upgrade", read |-> row]]
    /\ UNCHANGED <<row, editor, stored, crossed>>

\* ... and save_doc writes the converted text and, if they are sent, the converted diffs
\* under the next version.
SaveDoc(e) ==
    LET was == busy[e].read
    IN  /\ busy[e].at = "upgrade"
        /\ \E diffs \in {was.diffs, row.diffs} :
              Overwrite([row EXCEPT !.text = was.text, !.diffs = diffs, !.version = @ + 1], was)
        /\ busy' = [busy EXCEPT ![e] = NotAtWork]
        /\ UNCHANGED <<editor, saves, stored>>

\* An editor is closed, with its unsaved edit.
CloseEditor(e) ==
    /\ editor[e].open /\ busy[e] = NotAtWork
    /\ editor' = [editor EXCEPT ![e] = [open |-> FALSE, text |-> {}, version |-> 0, own |-> 0]]
    /\ UNCHANGED <<row, busy, saves, stored, crossed>>

DirectNext == \E e \in Editors :
    \/ Load(e) \/ LoadWrites(e) \/ CatchUp(e)
    \/ BeginDirectSave(e) \/ SaveWrites(e) \/ CloseEditor(e)
    \/ ImportDoc(e) \/ ImportWrites(e) \/ ListOldDocs(e) \/ SaveDoc(e)

DirectSpec == DirectInit /\ [][DirectNext]_directVars

-----------------------------------------------------------------------------
Row == [init : BOOLEAN, text : SUBSET (1..saves), version : 0..saves, diffs : Seq(1..saves)]

\* Types; the diffs never outgrow their limit.
DirectTypeOK ==
    /\ row \in Row /\ Len(row.diffs) <= DirectHistory
    /\ editor \in [Editors -> [open : BOOLEAN, text : SUBSET (1..saves), version : 0..saves,
                               own : 0..saves]]
    /\ busy \in [Editors -> {NotAtWork} \cup [at : {"load", "save", "upgrade"}, read : Row]
                 \cup [at : {"import"}, read : Row, edit : 1..saves]]
    /\ saves \in 0..MaxDirectSaves /\ stored \subseteq 1..saves /\ crossed \in BOOLEAN

\* Unless two requests crossed, a row being written back over one that had changed since
\* it was read (save_document, get_doc_data, import_doc, save_doc), or an import replaced a
\* text: no edit whose save was answered with success
\* is lost, and an editor that has the row's version has the row's edits, by whichever way
\* it caught up and with its history cut off anywhere.
EditorsAgree == ~crossed =>
    /\ stored \subseteq row.text
    /\ \A e \in Editors :
          editor[e].open /\ editor[e].version = row.version => editor[e].text = row.text
=============================================================================
