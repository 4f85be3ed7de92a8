------------------------------ MODULE Overview ------------------------------
(***************************************************************************)
(* What the holder of a right to a document or a book is shown of it and   *)
(* told by mail, while its owner changes the right: the overviews, the     *)
(* texts for export, moving, the mails about shares and comments           *)
(* (src/fiduswriter/document/views.py 78-272, 525-628, 1280-1356,          *)
(* 2024-2073, book/views.py 23-217, 446-594, document/emails.py).          *)
(*                                                                         *)
(* Each request asks the database several times for one answer, and some   *)
(* write back the whole of a row they read before.  Mate is the holder,    *)
(* Boss the owner, whose own path is left out.                             *)
(***************************************************************************)
EXTENDS Naturals

CONSTANTS Tellers,        \* processes that serve requests
          OverviewRights, \* the levels of rights Boss may give
          MaxOrders,      \* bound on the requests
          MaxTexts        \* bound on the versions of the text

ASSUME OverviewAssumption ==
    /\ OverviewRights \subseteq
          {"write", "write-tracked", "comment", "review-tracked", "review", "read",
           "read-without-comments"}
    /\ MaxOrders \in Nat /\ MaxTexts \in Nat \ {0}

VARIABLES
    thing,    \* is it a document or a book?
    exists,   \* is it there?
    holding,  \* Mate's AccessRight or BookAccessRight: number, rights and path
    rowsMade, \* number of the last such row
    text,     \* the version of the document: blank, as in the template, or later
    telling,  \* the rest of the request each process serves
    orders    \* requests begun

VARIABLES
    mailed,   \* history: the right the last mail about a share told Mate
    ordered,  \* history: the right Boss last gave, and the path last stored
    written,  \* history: is it deleted, and the version of the text last stored
    held,     \* history: the rights Mate had since each request began
    overran   \* history: was a row stored that had changed since it was read, or a mail
              \* sent before the row of another was stored?

overviewVars == <<thing, exists, holding, rowsMade, text, telling, orders,
                  mailed, ordered, written, held, overran>>

Nothing == "nothing"
NoRow == [rights |-> Nothing]
NoAnswer == [at |-> "none"]
Blank == 0
FromTemplate == 1

OverviewInit ==
    /\ thing \in {"document", "book"} /\ exists = TRUE
    /\ holding = NoRow /\ rowsMade = 0 /\ text = Blank
    /\ telling = [w \in Tellers |-> NoAnswer] /\ orders = 0
    /\ mailed = Nothing /\ ordered = NoRow /\ written = [there |-> TRUE, version |-> Blank]
    /\ held = [w \in Tellers |-> {}] /\ overran = FALSE

rightVars == <<holding, rowsMade, mailed, ordered>>
textVars == <<exists, text, written>>

TakeUp(w, what) ==
    /\ telling[w] = NoAnswer /\ orders < MaxOrders
    /\ orders' = orders + 1
    /\ telling' = [telling EXCEPT ![w] = what]
    /\ UNCHANGED thing
GoOn(w, what) == telling' = [telling EXCEPT ![w] = what] /\ UNCHANGED <<thing, orders>>
Answered(facts) == [at |-> "told", facts |-> facts]

-----------------------------------------------------------------------------
(* What Mate is shown.                                                     *)

\* documents_list, or the list of books: what Mate has a right to is looked up, ...
ListShared(w) ==
    /\ holding # NoRow
    /\ TakeUp(w, [at |-> "listed"])
    /\ UNCHANGED <<rightVars, textVars, overran>>

\* ... then the right again: without it the whole request fails, ...
LookUpRight(w) ==
    /\ telling[w].at = "listed"
    /\ GoOn(w, IF holding = NoRow THEN NoAnswer
                   ELSE IF thing = "book" THEN Answered({"entry", holding.rights})
                   ELSE [at |-> "revisions", right |-> holding.rights])
    /\ UNCHANGED <<rightVars, textVars, overran>>

CanCommunicate == {"read", "write", "comment", "write-tracked"}

\* fault: only those who may not even see comments are left out
CommunicatesOrReviews(right) == right \notin {Nothing, "read-without-comments"}

Communicates(right) == right \in CanCommunicate

\* ... and, for a document, whether it is one that shows the revisions.
LookUpRevisions(w) ==
    /\ telling[w].at = "revisions"
    /\ GoOn(w, Answered({"entry", telling[w].right}
             \cup (IF Communicates(holding.rights) THEN {"revisions"} ELSE {})))
    /\ UNCHANGED <<rightVars, textVars, overran>>

\* get_documentlist_extra reads whole documents; ...
ReadTexts(w) ==
    /\ thing = "document" /\ holding # NoRow
    /\ TakeUp(w, [at |-> IF text = Blank THEN "filling" ELSE "texts"])
    /\ UNCHANGED <<rightVars, textVars, overran>>

\* ... one that is blank is filled from its template and stored whole, which makes it
\* again if it is gone.
FillText(w) ==
    /\ telling[w].at = "filling"
    /\ GoOn(w, [at |-> "texts"])
    /\ exists' = TRUE /\ text' = FromTemplate
    /\ written' = (IF exists THEN [written EXCEPT !.version = FromTemplate] ELSE written)
    /\ overran' = (overran \/ ~exists \/ text # Blank)
    /\ UNCHANGED rightVars

OwnCommentsOnly == {"review", "review-tracked"}

\* Its comments are those the right allows that is looked up then; without one, all.
LookUpComments(w) ==
    /\ telling[w].at = "texts"
    /\ GoOn(w, Answered({"text"} \cup
           (IF holding.rights \in OwnCommentsOnly \cup {"read-without-comments"} THEN {}
            ELSE {"comments"})))
    /\ UNCHANGED <<rightVars, textVars, overran>>

\* get_access_rights tells Boss; each row is followed to its document or book.
ListRights(w) ==
    /\ holding # NoRow
    /\ TakeUp(w, [at |-> "rights", right |-> holding.rights])
    /\ UNCHANGED <<rightVars, textVars, overran>>

FollowRights(w) ==
    /\ telling[w].at = "rights"
    /\ GoOn(w, IF exists THEN Answered({telling[w].right}) ELSE NoAnswer)
    /\ UNCHANGED <<rightVars, textVars, overran>>

\* The answer is sent.
Answer(w) ==
    /\ telling[w].at = "told"
    /\ GoOn(w, NoAnswer)
    /\ UNCHANGED <<rightVars, textVars, overran>>

-----------------------------------------------------------------------------
(* What is told by mail of comments, and asked.                            *)

\* The mails about a comment, and about the wish for a right.
CommentMail(fact) == Answered({fact})
AccessMail == Answered({"asks"})
Unsent == Answered({})

\* comment_notify, from Boss: Mate is told if he has a right, ...
NotifyMate(w) ==
    /\ thing = "document" /\ exists
    /\ TakeUp(w, IF holding = NoRow THEN Unsent ELSE CommentMail("tagged"))
    /\ UNCHANGED <<rightVars, textVars, overran>>

\* ... and from Mate: Boss is told, if Mate has a right and it lets him comment, for which
\* it is looked up again.
NotifyBoss(w) ==
    /\ thing = "document" /\ holding # NoRow
    /\ TakeUp(w, [at |-> "notifying"])
    /\ UNCHANGED <<rightVars, textVars, overran>>

MayNotify(right) == right \notin {Nothing, "read", "read-without-comments"}

LookUpNotifier(w) ==
    /\ telling[w].at = "notifying"
    /\ GoOn(w, IF MayNotify(holding.rights) THEN CommentMail("notifies") ELSE Unsent)
    /\ UNCHANGED <<rightVars, textVars, overran>>

\* request_access: Boss is asked by one who has no right, once the document was found.
RequestAccess(w) ==
    /\ thing = "document" /\ exists
    /\ TakeUp(w, [at |-> "asking"])
    /\ UNCHANGED <<rightVars, textVars, overran>>

LookUpAsker(w) ==
    /\ telling[w].at = "asking"
    /\ GoOn(w, IF holding = NoRow THEN AccessMail ELSE Unsent)
    /\ UNCHANGED <<rightVars, textVars, overran>>

-----------------------------------------------------------------------------
(* Writing rows.                                                           *)

\* A row that was read is stored whole; it is made again if it is gone, but not next to
\* another, nor for a document or book that is gone.
StoreRow(read, new) ==
    /\ holding' = IF exists /\ (holding = NoRow \/ holding.number = new.number)
                  THEN new ELSE holding
    /\ overran' = (overran \/ holding # read)

\* move, by Mate: the row is read, ...
Move(w) ==
    /\ holding # NoRow
    /\ TakeUp(w, [at |-> "moving", row |-> holding])
    /\ UNCHANGED <<rightVars, textVars, overran>>

Moved(row, path) == IF row = NoRow THEN NoRow ELSE [row EXCEPT !.path = path]

\* ... and stored whole with the new path.
StorePath(w) ==
    /\ telling[w].at = "moving"
    /\ StoreRow(telling[w].row, Moved(telling[w].row, "moved"))
    /\ ordered' = Moved(ordered, "moved")
    /\ GoOn(w, NoAnswer)
    /\ UNCHANGED <<rowsMade, mailed, textVars>>

\* A path changed in the editor is stored alone: handle_path_change reads the row, ...
ChangePath(w) ==
    /\ thing = "document" /\ holding # NoRow
    /\ TakeUp(w, [at |-> "changing", number |-> holding.number])
    /\ UNCHANGED <<rightVars, textVars, overran>>

\* ... whose path save_path_object stores, if it is there still.
SavePathObject(w) ==
    /\ telling[w].at = "changing"
    /\ IF holding # NoRow /\ holding.number = telling[w].number
       THEN holding' = Moved(holding, "changed") /\ ordered' = Moved(ordered, "changed")
       ELSE UNCHANGED <<holding, ordered>>
    /\ GoOn(w, NoAnswer)
    /\ UNCHANGED <<rowsMade, mailed, textVars, overran>>

\* save_access_rights, by Boss: the row is read, ...
GiveRight(w, right) ==
    /\ exists
    /\ TakeUp(w, [at |-> "sharing", row |-> holding, right |-> right])
    /\ UNCHANGED <<rightVars, textVars, overran>>

NewRow(right) == [number |-> rowsMade + 1, rights |-> right, path |-> "first"]

\* fault: the holder's number, not his type, is compared with "user" for documents, too
NoNewHolderIsTold(kind) == FALSE

\* Does one who had no right get a mail?  For a book the holder's number is compared with
\* "user" instead of his type: nobody does.
NewHolderIsTold(kind) == kind = "document"

\* ... made if there is none, ...
MakeRow(w) ==
    /\ telling[w].at = "sharing" /\ telling[w].row = NoRow
    /\ IF exists /\ holding = NoRow
       THEN LET new == NewRow(telling[w].right) IN
            /\ holding' = new /\ ordered' = new
            /\ rowsMade' = rowsMade + 1
            /\ GoOn(w, IF thing = "book" THEN NoAnswer
                           ELSE [at |-> IF NewHolderIsTold(thing) THEN "mail" ELSE "saving",
                                 row |-> new, read |-> new])
       ELSE GoOn(w, NoAnswer) /\ UNCHANGED <<holding, ordered, rowsMade>>
    /\ UNCHANGED <<mailed, textVars, overran>>

\* ... or changed, if the right is another; ...
ChangeRow(w) ==
    /\ telling[w].at = "sharing" /\ telling[w].row # NoRow
    /\ LET read == telling[w].row
           new == [read EXCEPT !.rights = telling[w].right]
       IN  GoOn(w, [at |-> IF new = read THEN "saving" ELSE "mail", row |-> new, read |-> read])
    /\ UNCHANGED <<rightVars, textVars, overran>>

\* ... Mate is told by mail, ...
MailShare(w) ==
    /\ telling[w].at = "mail"
    /\ mailed' = telling[w].row.rights
    /\ overran' = (overran \/ \E v \in Tellers \ {w} : telling[v].at = "saving")
    /\ GoOn(w, [telling[w] EXCEPT !.at = "saving"])
    /\ UNCHANGED <<holding, rowsMade, ordered, textVars>>

\* ... and the row is stored whole, the new one for the second time.
SaveRow(w) ==
    /\ telling[w].at = "saving"
    /\ StoreRow(telling[w].read, telling[w].row)
    /\ ordered' = IF ordered = NoRow THEN telling[w].row
                  ELSE [ordered EXCEPT !.rights = telling[w].row.rights]
    /\ GoOn(w, NoAnswer)
    /\ UNCHANGED <<rowsMade, mailed, textVars>>

\* A right is taken away without a mail ...
TakeRight ==
    /\ holding # NoRow /\ orders < MaxOrders /\ orders' = orders + 1
    /\ holding' = NoRow /\ ordered' = NoRow
    /\ UNCHANGED <<thing, rowsMade, telling, mailed, textVars, overran>>

\* ... and goes with the document or the book.
Delete ==
    /\ exists /\ orders < MaxOrders /\ orders' = orders + 1
    /\ exists' = FALSE /\ holding' = NoRow
    /\ ordered' = NoRow /\ written' = [written EXCEPT !.there = FALSE]
    /\ UNCHANGED <<thing, rowsMade, telling, mailed, text, overran>>

\* Whoever opens the document fills it from the template, and stores versions of it.
Store ==
    /\ thing = "document" /\ exists /\ text < MaxTexts
    /\ text' = text + 1 /\ written' = [written EXCEPT !.version = text']
    /\ UNCHANGED <<thing, exists, telling, orders, rightVars, overran>>

-----------------------------------------------------------------------------
\* What the requests under way may have to go by.
Remember == held' = [w \in Tellers |->
    IF telling'[w] = NoAnswer THEN {} ELSE held[w] \cup {holding'.rights}]

OverviewNext ==
    /\ \/ \E w \in Tellers :
            \/ ListShared(w) \/ LookUpRight(w) \/ LookUpRevisions(w)
            \/ ReadTexts(w) \/ FillText(w) \/ LookUpComments(w)
            \/ ListRights(w) \/ FollowRights(w) \/ Answer(w)
            \/ NotifyMate(w) \/ NotifyBoss(w) \/ LookUpNotifier(w)
            \/ RequestAccess(w) \/ LookUpAsker(w)
            \/ Move(w) \/ StorePath(w) \/ ChangePath(w) \/ SavePathObject(w)
            \/ \E right \in OverviewRights : GiveRight(w, right)
            \/ MakeRow(w) \/ ChangeRow(w) \/ MailShare(w) \/ SaveRow(w)
       \/ TakeRight \/ Delete \/ Store
    /\ Remember

OverviewSpec == OverviewInit /\ [][OverviewNext]_overviewVars

-----------------------------------------------------------------------------
Rows == [number : 1..rowsMade, rights : OverviewRights, path : {"first", "moved", "changed"}]

\* Types; nobody has a right to what is not there.
OverviewTypeOK ==
    /\ thing \in {"document", "book"} /\ exists \in BOOLEAN /\ overran \in BOOLEAN
    /\ holding \in Rows \cup {NoRow} /\ ordered \in Rows \cup {NoRow}
    /\ text \in 0..MaxTexts /\ written \in [there : BOOLEAN, version : 0..MaxTexts]
    /\ orders \in 0..MaxOrders /\ mailed \in OverviewRights \cup {Nothing}
    /\ DOMAIN telling = Tellers /\ held \in [Tellers -> SUBSET (OverviewRights \cup {Nothing})]
    /\ \A w \in Tellers : held[w] = {} <=> telling[w] = NoAnswer
    /\ ~exists => holding = NoRow

\* What goes with a right.
Entitles(right) ==
    IF right = Nothing THEN {"asks"}
    ELSE {"entry", "text", "tagged", right}
           \cup {f \in {"comments"} : right \notin OwnCommentsOnly \cup {"read-without-comments"}}
           \cup {f \in {"revisions"} : right \in {"read", "write", "comment", "write-tracked"}}
           \cup {f \in {"notifies"} : right \notin {"read", "read-without-comments"}}

\* Whatever Mate is shown, or is told or tells by mail, goes with a right he had at some
\* moment of the request, though the request asks for it several times while Boss changes
\* it - but one whose right is taken away between the two lookups of
\* get_documentlist_extra is given all comments, whatever his right was
\* (filter_comments_dict without a right; documents_list, comment_notify, request_access).
ToldWasSo == \A w \in Tellers : telling[w].at = "told" =>
    telling[w].facts \subseteq (UNION {Entitles(right) : right \in held[w]})
        \cup {f \in {"comments"} : Nothing \in held[w]}

\* Unless a whole row was stored over a change made since it was read, or Boss gave two
\* rights at once: Mate has the right Boss last gave him, under the path that was stored
\* last, what was deleted stays away, and the text is the version last stored; and for a
\* document the last mail told Mate the right he has, unless one is about to be sent or
\* the row to be stored (move, get_documentlist_extra, save_access_rights,
\* handle_path_change).
RowsStand == ~overran =>
    /\ holding = ordered
    /\ written = [there |-> exists, version |-> text]
    /\ thing = "document" /\ holding # NoRow =>
          mailed = holding.rights \/ \E w \in Tellers : telling[w].at \in {"mail", "saving"}
=============================================================================
