------------------------------ MODULE Library ------------------------------
(***************************************************************************)
(* Books, the documents that are their chapters, and the images both use   *)
(* (src/fiduswriter/book/views.py, book/signals.py, document/views.py,     *)
(* usermedia/views.py, document/helpers/document_store.py).                *)
(*                                                                         *)
(* There is one book, Boss's, and one other person, Mate, who may have an  *)
(* account that holds rights and an open invitation that holds rights.     *)
(* Rows refer to each other: who adds to a book or shares it must see to   *)
(* it that its readers may read the chapters, and who takes away the last  *)
(* use of an image removes it.  Requests are not transactions: each        *)
(* statement that the others may see, or come in between, is a step.       *)
(***************************************************************************)
EXTENDS Naturals

CONSTANTS Docs,         \* documents
          DocOwner,     \* the owner of each: "boss" or "mate"
          Images,       \* images
          Loads         \* the set-ups: how many requests are served at a
                        \* time, and how many in all

People == {"boss", "mate"}
Invitation == "invitation"              \* Boss's invitation to Mate
Holders == People \cup {Invitation}     \* who may hold rights to a document
None == "none"

ASSUME LibraryAssumption ==
    /\ DocOwner \in [Docs -> People]
    /\ Loads \subseteq [workers : {1, 2}, requests : Nat]
    /\ None \notin Images

VARIABLES
    docs,       \* documents there are
    access,     \* rows of AccessRight: document and holder
    book,       \* is the book there, and with which cover?
    shared,     \* the right each holder has to the book (BookAccessRight)
    chapters,   \* documents in the book (Chapter)
    images,     \* images there are
    linked,     \* documents and the images in them (DocumentImage)
    owned,      \* people and the images in their collections (UserImage)
    invited,    \* is the invitation open?
    job,        \* what each request in progress has still to do
    load,       \* the set-up
    served      \* counter for its bound

VARIABLES
    withheld,   \* history: rights to documents their owners took away, or did not give
                \* because somebody else put the document into the book
    left,       \* history: images the code leaves behind when they fall out of use
    late,       \* history: images found unused that got a use before they went
    robbed      \* history: was another use taken away with an image?

libraryHistory == <<withheld, left, late, robbed>>
rights == <<access, shared, invited>>
libraryVars == <<docs, book, rights, chapters, images, linked, owned, job, load, served,
                 libraryHistory>>

Tasks == {1, 2}
Rest == [at |-> "rest"]
NoBook == [is |-> FALSE, cover |-> None]

LibraryInit ==
    /\ docs = Docs /\ access = {}
    /\ book = [is |-> TRUE, cover |-> None] /\ chapters = {}
    /\ shared \in [{"mate", Invitation} -> {None, "write"}]
    /\ \E i \in Images :
          images = {i} /\ owned = {<<"boss", i>>} /\ linked \in SUBSET (Docs \X {i})
    /\ invited \in BOOLEAN /\ (~invited => shared[Invitation] = None)
    /\ job = [t \in Tasks |-> Rest]
    /\ load \in Loads /\ served = 0
    /\ withheld = {} /\ left = {} /\ late = {} /\ robbed = FALSE

-----------------------------------------------------------------------------
(* Requests.                                                               *)

Accept(t) ==
    /\ t <= load.workers
    /\ job[t] = Rest /\ \A u \in Tasks : u < t => job[u] # Rest
    /\ served < load.requests /\ served' = served + 1

Goes(t, what) == job' = [job EXCEPT ![t] = what]

\* A request of one step, which begins and ends in it.
AtOnce(t) == Accept(t) /\ UNCHANGED <<job, load>>

\* Image.is_deletable: nobody has it, no document and no cover.
IsDeletable(i) ==
    /\ \A d \in Docs : <<d, i>> \notin linked
    /\ \A p \in People : <<p, i>> \notin owned
    /\ book.cover # i

Collect(todo) == IF todo = {} THEN Rest ELSE [at |-> "collect", todo |-> todo]

\* The images a request has still to look at, or to remove.
Todo(t) ==
    CASE job[t].at \in {"collect", "delete book", "delete document"} -> job[t].todo
      [] job[t].at = "remove" -> job[t].todo \cup {job[t].image}
      [] OTHER -> {}

\* The steps of saving a book.
SaveSteps == {"store", "chapters", "add", "again"}

\* The number of a new image: no image has it, and no request knows one that had it.
IsNew(i) ==
    /\ i \notin images
    /\ \A t \in Tasks : i \notin Todo(t) /\ (job[t].at \in SaveSteps => job[t].cover # i)

\* A use of an image somebody has already found unused.
Used(i) == late' = IF \E t \in Tasks : job[t].at = "remove" /\ job[t].image = i
                   THEN late \cup {i} ELSE late

-----------------------------------------------------------------------------
(* Saving a book (save, set_chapters).                                     *)

MaySave(p) == p = "boss" \/ shared["mate"] = "write"
Reads(p, d) == DocOwner[d] = p \/ <<d, p>> \in access

\* The book is read; it may be saved with the cover it has, with none, or with an
\* image of the user's.
BeginSave(t) == \E p \in People, list \in SUBSET docs :
    /\ Accept(t)
    /\ book.is /\ MaySave(p)
    /\ \A d \in list : Reads(p, d) \/ d \in chapters
    /\ \E cover \in {book.cover, None} \cup {i \in images : <<p, i>> \in owned} :
          Goes(t, [at |-> "store", who |-> p, list |-> list, cover |-> cover])
    /\ UNCHANGED <<docs, book, rights, chapters, images, linked, owned, load, libraryHistory>>

\* The cover that is replaced, and the new one if the book is just being deleted.
LeftBehind(cover) ==
    ({book.cover} \ {cover})
      \cup (IF \E t \in Tasks : job[t].at = "delete book" THEN {cover} ELSE {})

\* What such a request goes on with.
Saving(t, step, list) ==
    [at |-> step, who |-> job[t].who, list |-> list, cover |-> job[t].cover]

\* book.save writes the whole row; an image that was removed meanwhile is refused.
WriteBook(t, then) ==
    LET cover == job[t].cover
    IN  /\ IF cover \notin images \cup {None}
           THEN Goes(t, Rest) /\ UNCHANGED <<book, left, late>>
           ELSE /\ book' = [is |-> TRUE, cover |-> cover]
                /\ Goes(t, then)
                /\ left' = (left \cup LeftBehind(cover)) \ {None}
                /\ Used(cover)
        /\ UNCHANGED <<docs, rights, chapters, images, linked, owned, load, served,
                       withheld, robbed>>

\* A book that was deleted meanwhile is there again.
StoreBook(t) == job[t].at = "store" /\ WriteBook(t, Saving(t, "chapters", job[t].list))

\* set_chapters: nothing to do, or all chapters go, to be added one by one.
ClearChapters(t) ==
    /\ job[t].at = "chapters"
    /\ IF chapters = job[t].list THEN Goes(t, Rest) /\ UNCHANGED chapters
       ELSE chapters' = {} /\ Goes(t, Saving(t, "add", job[t].list))
    /\ UNCHANGED <<docs, book, rights, images, linked, owned, load, served, libraryHistory>>

Sharing == {h \in {"mate", Invitation} : shared[h] # None}

\* fault: only accounts are looked at
SharersWithAccount == Sharing \ {Invitation}

\* Those with a right to the book, to be given one to a chapter.
BookSharers == Sharing

\* Those who share the book may read a chapter its owner put in.  If that was not the
\* book's owner, he is to have access too: he has, or the row is created with a field
\* that does not exist, which raises.
AddChapter(t) == \E d \in job[t].list :
    LET p == job[t].who
        mine == DocOwner[d] = p
        raises == mine /\ p # "boss" /\ <<d, "boss">> \notin access
    IN  /\ d \in docs /\ book.is
        /\ chapters' = chapters \cup {d}
        /\ IF mine THEN /\ access' = access \cup {<<d, h>> : h \in BookSharers}
                        /\ withheld' = withheld \ access'
                   ELSE /\ withheld' = withheld \cup {<<d, h>> : h \in Sharing}
                        /\ UNCHANGED access
        /\ Goes(t, IF raises THEN Rest ELSE Saving(t, "again", job[t].list \ {d}))
        /\ UNCHANGED <<docs, book, shared, invited, images, linked, owned, load, served,
                       left, late, robbed>>

\* After each chapter the book is saved again as it was read, with the cover of then,
\* whatever was stored in between; one that was deleted meanwhile is not (force_update).
StoreAgain(t) ==
    /\ job[t].at = "again" /\ book.is
    /\ WriteBook(t, IF job[t].list = {} THEN Rest ELSE Saving(t, "add", job[t].list))

\* The book or the document was deleted meanwhile: the chapter, or the book with it, is
\* refused, and those after it are never added.
ChapterRefused(t) ==
    /\ \/ job[t].at = "add" /\ (job[t].list = {} \/ ~book.is \/ ~(job[t].list \subseteq docs))
       \/ job[t].at = "again" /\ ~book.is
    /\ Goes(t, Rest)
    /\ UNCHANGED <<docs, book, rights, chapters, images, linked, owned, load, served,
                   libraryHistory>>

-----------------------------------------------------------------------------
(* Rights.                                                                 *)

\* save_access_rights of books, in one transaction: the holder gets access to the
\* chapters that are Boss's.
ShareBook(t) == \E h \in {"mate", Invitation}, r \in {"read", "write"} :
    /\ AtOnce(t)
    /\ book.is /\ (h = Invitation => invited)
    /\ shared' = [shared EXCEPT ![h] = r]
    /\ access' = access \cup {<<d, h>> : d \in {d \in chapters : DocOwner[d] = "boss"}}
    /\ withheld' = withheld \ access'
    /\ UNCHANGED <<docs, book, chapters, images, linked, owned, invited, left, late, robbed>>

\* Rights to the chapters are kept.
UnshareBook(t) == \E h \in {"mate", Invitation} :
    /\ AtOnce(t)
    /\ book.is /\ shared[h] # None
    /\ shared' = [shared EXCEPT ![h] = None]
    /\ UNCHANGED <<docs, book, access, chapters, images, linked, owned, invited, libraryHistory>>

\* save_access_rights of documents.
ShareDoc(t) == \E d \in docs, h \in Holders :
    /\ AtOnce(t)
    /\ h # DocOwner[d] /\ (h = Invitation => invited /\ DocOwner[d] = "boss")
    /\ access' = access \cup {<<d, h>>}
    /\ withheld' = withheld \ {<<d, h>>}
    /\ UNCHANGED <<docs, book, shared, chapters, images, linked, owned, invited, left, late, robbed>>

UnshareDoc(t) == \E r \in access :
    /\ AtOnce(t)
    /\ access' = access \ {r}
    /\ withheld' = withheld \cup {r}
    /\ UNCHANGED <<docs, book, shared, chapters, images, linked, owned, invited, left, late, robbed>>

\* UserInvite.apply: rights to documents are given to the account, unless it has one; so
\* is the right to the book (connect_book_invites), but when the account has one it is
\* raised at most, and the row of the invitation stays although the invitation goes.
AcceptInvitation(t) ==
    LET theirs == {d \in Docs : <<d, Invitation>> \in access}
        lost == {<<d, "mate">> : d \in {d \in Docs : <<d, Invitation>> \in withheld}}
    IN  /\ AtOnce(t)
        /\ invited /\ invited' = FALSE
        /\ access' = {r \in access : r[2] # Invitation}
                       \cup {<<d, "mate">> : d \in {d \in theirs : DocOwner[d] # "mate"}}
        /\ shared' = CASE shared[Invitation] = None -> shared
                       [] shared["mate"] = None ->
                            [shared EXCEPT !["mate"] = shared[Invitation], ![Invitation] = None]
                       [] OTHER -> IF shared[Invitation] = "write"
                                   THEN [shared EXCEPT !["mate"] = "write"] ELSE shared
        /\ withheld' = (withheld \cup lost) \ access'
        /\ UNCHANGED <<docs, book, chapters, images, linked, owned, left, late, robbed>>

\* invite_decline: the rows about documents go with the invitation, that about the book
\* stays.
DeclineInvitation(t) ==
    /\ AtOnce(t)
    /\ invited /\ invited' = FALSE
    /\ access' = {r \in access : r[2] # Invitation}
    /\ UNCHANGED <<docs, book, shared, chapters, images, linked, owned, libraryHistory>>

-----------------------------------------------------------------------------
(* Images come and go.                                                     *)

\* save of usermedia.
Upload(t) == \E p \in People, i \in Images :
    /\ AtOnce(t)
    /\ IsNew(i)
    /\ images' = images \cup {i}
    /\ owned' = owned \cup {<<p, i>>}
    /\ UNCHANGED <<docs, book, rights, chapters, linked, libraryHistory>>

\* The document is being deleted, and the images in it have been listed.
Listed(d) == \E t \in Tasks : job[t].at = "delete document" /\ job[t].doc = d

\* An image in a document: one of the user's (update_document_images), or one the server
\* has or gets with an imported document (import_image).
Insert(t) == \E d \in docs, i \in Images :
    /\ AtOnce(t)
    /\ i \in images \/ IsNew(i)
    /\ <<d, i>> \notin linked
    /\ images' = images \cup {i}
    /\ linked' = linked \cup {<<d, i>>}
    /\ left' = IF Listed(d) THEN left \cup {i} ELSE left
    /\ Used(i)
    /\ UNCHANGED <<docs, book, rights, chapters, owned, withheld, robbed>>

\* It is taken out again: the row goes, then the image is looked at.
Drop(t) == \E r \in linked :
    /\ Accept(t)
    /\ linked' = linked \ {r}
    /\ Goes(t, Collect({r[2]}))
    /\ UNCHANGED <<docs, book, rights, chapters, images, owned, load, libraryHistory>>

\* delete of usermedia.
Forget(t) == \E r \in owned :
    /\ Accept(t)
    /\ owned' = owned \ {r}
    /\ Goes(t, Collect({r[2]}))
    /\ UNCHANGED <<docs, book, rights, chapters, images, linked, load, libraryHistory>>

\* The images of a request are looked at one after the other, ...
CheckImage(t) == \E i \in job[t].todo :
    LET goes == i \in images /\ IsDeletable(i)
        others == job[t].todo \ {i}
    IN  /\ Goes(t, IF goes THEN [at |-> "remove", image |-> i, todo |-> others]
                           ELSE Collect(others))
        /\ late' = IF goes THEN late \ {i} ELSE late
        /\ UNCHANGED <<docs, book, rights, chapters, images, linked, owned, load, served,
                       withheld, left, robbed>>

\* ... and removed with all rows that refer to it: the whole book, if it is its cover.
RemoveImage(t) ==
    LET i == job[t].image
        goes == book.cover = i
    IN  /\ job[t].at = "remove"
        /\ images' = images \ {i}
        /\ linked' = {r \in linked : r[2] # i}
        /\ owned' = {r \in owned : r[2] # i}
        /\ book' = IF goes THEN NoBook ELSE book
        /\ chapters' = IF goes THEN {} ELSE chapters
        /\ shared' = IF goes THEN [h \in DOMAIN shared |-> None] ELSE shared
        /\ Goes(t, Collect(job[t].todo))
        /\ robbed' = (robbed \/ (~IsDeletable(i) /\ i \notin late))
        /\ left' = left \ {i} /\ late' = late \ {i}
        /\ UNCHANGED <<docs, access, invited, load, served, withheld>>

-----------------------------------------------------------------------------
(* Deleting documents and the book.                                        *)

ImagesOf(d) == {i \in Images : <<d, i>> \in linked}

\* Nothing refers to the document but rows that go with it.
InNoBook(d) == d \notin chapters

\* A document that is in no book: its images are listed, ...
BeginDeleteDoc(t) == \E d \in docs :
    /\ Accept(t)
    /\ InNoBook(d)
    /\ Goes(t, [at |-> "delete document", doc |-> d, todo |-> ImagesOf(d)])
    /\ UNCHANGED <<docs, book, rights, chapters, images, linked, owned, load, libraryHistory>>

\* fault: the images are listed when the document is gone, and their rows with it
DeleteDocThenList(t) ==
    LET d == job[t].doc
    IN  /\ docs' = docs \ {d}
        /\ access' = {r \in access : r[1] # d}
        /\ linked' = {r \in linked : r[1] # d}
        /\ chapters' = chapters \ {d}
        /\ Goes(t, Rest)

\* ... then it is deleted, with all rows that refer to it.
DeleteRows(t) ==
    LET d == job[t].doc
    IN  /\ docs' = docs \ {d}
        /\ access' = {r \in access : r[1] # d}
        /\ linked' = {r \in linked : r[1] # d}
        /\ chapters' = chapters \ {d}
        /\ Goes(t, Collect(job[t].todo))

DeleteDoc(t) ==
    /\ job[t].at = "delete document"
    /\ DeleteRows(t)
    /\ UNCHANGED <<book, shared, invited, images, owned, load, served, libraryHistory>>

\* The book is read, with its cover, ...
BeginDeleteBook(t) ==
    /\ Accept(t)
    /\ book.is
    /\ Goes(t, [at |-> "delete book", todo |-> {book.cover} \ {None}])
    /\ UNCHANGED <<docs, book, rights, chapters, images, linked, owned, load, libraryHistory>>

\* ... and deleted.
DeleteBook(t) ==
    /\ job[t].at = "delete book"
    /\ book' = NoBook /\ chapters' = {}
    /\ shared' = [h \in DOMAIN shared |-> None]
    /\ Goes(t, Collect(job[t].todo))
    /\ UNCHANGED <<docs, access, invited, images, linked, owned, load, served, libraryHistory>>

-----------------------------------------------------------------------------
SaveStep(t) == StoreBook(t) \/ ClearChapters(t) \/ (job[t].at = "add" /\ AddChapter(t))
                 \/ StoreAgain(t) \/ ChapterRefused(t)
ImageStep(t) == (job[t].at = "collect" /\ CheckImage(t)) \/ RemoveImage(t)
RightsRequest(t) == ShareBook(t) \/ UnshareBook(t) \/ ShareDoc(t) \/ UnshareDoc(t)
                      \/ AcceptInvitation(t) \/ DeclineInvitation(t)
ImageRequest(t) == Upload(t) \/ Insert(t) \/ Drop(t) \/ Forget(t)

LibraryNext == \E t \in Tasks :
    \/ BeginSave(t) \/ SaveStep(t)
    \/ RightsRequest(t)
    \/ ImageRequest(t) \/ ImageStep(t)
    \/ BeginDeleteDoc(t) \/ DeleteDoc(t) \/ BeginDeleteBook(t) \/ DeleteBook(t)

LibrarySpec == LibraryInit /\ [][LibraryNext]_libraryVars

-----------------------------------------------------------------------------
Job ==
    [at : {"rest"}]
      \cup [at : SaveSteps, who : People, list : SUBSET Docs, cover : Images \cup {None}]
      \cup [at : {"collect", "delete book"}, todo : SUBSET Images]
      \cup [at : {"remove"}, image : Images, todo : SUBSET Images]
      \cup [at : {"delete document"}, doc : Docs, todo : SUBSET Images]

\* Types; no row refers to one that is gone.
LibraryTypeOK ==
    /\ docs \subseteq Docs /\ images \subseteq Images /\ invited \in BOOLEAN
    /\ access \subseteq docs \X Holders
    /\ book \in [is : BOOLEAN, cover : images \cup {None}]
    /\ shared \in [{"mate", Invitation} -> {None, "read", "write"}]
    /\ chapters \subseteq docs /\ linked \subseteq docs \X images
    /\ owned \subseteq People \X images
    /\ ~book.is => book = NoBook /\ chapters = {} /\ Sharing = {}
    /\ job \in [Tasks -> Job]
    /\ withheld \subseteq Docs \X Holders /\ left \subseteq Images /\ late \subseteq Images
    /\ robbed \in BOOLEAN

\* While requests come one at a time, whoever shares the book may read those of its
\* chapters that are its owner's, unless he took that right away himself or the chapter
\* was put in by somebody else; by an invitation as by an account, and after it was
\* accepted (set_chapters, save_access_rights, UserInvite.apply).
BookReaders == load.workers = 1 /\ job[1] = Rest =>
    \A h \in Sharing, d \in chapters :
        DocOwner[d] = "boss" /\ (h = Invitation => invited)
            => <<d, h>> \in access \cup withheld

\* Images go when and only when they have no use.  When no request is at work every image
\* has one, but for those the code leaves behind: a cover that was replaced, and what was
\* put into a document or a book after its deletion had begun; and no use goes with an
\* image but one made between the look and the removal (delete, is_deletable).
ImagesFollowUse ==
    /\ (\A t \in Tasks : job[t] = Rest) => \A i \in images : IsDeletable(i) => i \in left
    /\ ~robbed
=============================================================================
