------------------------------ MODULE Comments ------------------------------
(***************************************************************************)
(* The comments of an open document that is not encrypted.  Updates of     *)
(* comments travel in diffs; the server applies them to its own copy and   *)
(* hands them to the other readers, each according to their rights:        *)
(* handle_diff, update_comments and send_updates of                        *)
(* src/fiduswriter/document/consumers.py with helpers/comment_filter.py,   *)
(* and the native service's handle_diff, update_comments and broadcast     *)
(* (src/native/src).  The one `engine` of a behaviour is either.           *)
(*                                                                         *)
(* A document's steps are left out: a diff has updates of comments, and    *)
(* with them no steps, marks of comments, a text or a title.  Of a comment *)
(* only its author, to whom it is assigned, and who has answered it are    *)
(* kept; who only comments or reviews is heard if marks of comments come   *)
(* with the updates, and dropped without an answer if not.  The editors    *)
(* are not part of the repository: they take diffs in the order of         *)
(* versions, ask for the version when one is missing, and keep or drop an  *)
(* update of their own that crossed another one.                           *)
(***************************************************************************)
EXTENDS Integers, Sequences

CONSTANTS Readers,            \* connections, each of a user of its own
          RightsChoices,      \* the rights the readers may have at first
          CommentIds,
          CommentHistory,     \* history_length (1000)
          MaxCommentDiffs     \* bound on the diffs made, and on those sent again

AllRights == {"write", "comment", "review", "read-without-comments"}

ASSUME CommentsAssumption ==
    /\ RightsChoices \subseteq [Readers -> AllRights]
    /\ CommentHistory \in Nat \ {0} /\ MaxCommentDiffs \in Nat
    /\ "nobody" \notin Readers

VARIABLES
    engine,      \* "python" or "native"
    comments,    \* the session's comments
    docVersion,  \* the session's version ...
    docDiffs,    \* ... and the diffs it keeps
    readerRights, \* the rights of each reader
    reader,      \* each reader: version, comments seen, updates not confirmed
    upstream,    \* the diff of each reader on its way to the server
    wire,        \* messages on their way to each reader
    turn,        \* the rest of each reader's handle_diff
    composed,    \* counter for the bound
    named,       \* ids in use: an editor makes up a new one for each comment
    unheard,     \* history: readers whose last diff was dropped
    disturbed    \* history: an update failed half-way, or another request came
                 \* between the steps of a handler

threadVars == <<engine, comments, docVersion, docDiffs>>
noteVars == <<composed, named, unheard>>
commentVars == <<threadVars, readerRights, reader, upstream, wire, turn, noteVars, disturbed>>

Users == Readers \cup {"nobody"}
NoComment == [user |-> "nobody", assigned |-> "nobody", answers |-> {}, answered |-> FALSE]
NoDiff == [v |-> -1]
Resting == [step |-> "none"]

-----------------------------------------------------------------------------
(* What one update does.                                                   *)

IsThere(cs, u) == cs[u.id].user # "nobody"

\* In Python these raise a KeyError; the native service passes over them.
MissingFor(cs, u) ==
    \/ u.type # "create" /\ ~IsThere(cs, u)
    \/ u.type \in {"delete_answer", "update_answer"} /\ ~cs[u.id].answered

Changed(cs, u) ==
    CASE u.type = "create" -> [cs EXCEPT ![u.id] = [NoComment EXCEPT !.user = u.user,
                                                                 !.assigned = u.assigned]]
      [] u.type = "delete" -> [cs EXCEPT ![u.id] = NoComment]
      [] u.type = "update" -> [cs EXCEPT ![u.id].assigned = u.assigned]
      [] u.type = "add_answer" ->
            [cs EXCEPT ![u.id].answers = @ \cup {u.user}, ![u.id].answered = TRUE]
      [] u.type = "delete_answer" -> [cs EXCEPT ![u.id].answers = {}]
      [] u.type = "update_answer" -> cs

\* Updates of what is not there are passed over: the native service, and the editors.
Passing(cs, u) == IF MissingFor(cs, u) THEN cs ELSE Changed(cs, u)
Native_Updated(cs, cu) ==
    LET after[k \in 0..Len(cu)] == IF k = 0 THEN cs ELSE Passing(after[k - 1], cu[k])
    IN  after[Len(cu)]

\* Python: nothing is done any more after the first one that raises.
Raising(r, u) ==
    IF r.raised THEN r
    ELSE IF MissingFor(r.cs, u) THEN [r EXCEPT !.raised = TRUE]
    ELSE [r EXCEPT !.cs = Changed(@, u)]
Updated(cs, cu) ==
    LET after[k \in 0..Len(cu)] ==
          IF k = 0 THEN [cs |-> cs, raised |-> FALSE] ELSE Raising(after[k - 1], cu[k])
    IN  after[Len(cu)]

UpdatedBy(cs, cu) ==
    IF engine = "python" THEN Updated(cs, cu)
    ELSE [cs |-> Native_Updated(cs, cu), raised |-> FALSE]

-----------------------------------------------------------------------------
(* What each reader is shown.                                              *)

ReviewRights == {"review"}      \* "review-tracked" is treated alike
CommentOnly == {"review", "comment"}

\* Is this comment, or this update of one, shown to p who reviews?
OfUser(e, p) == e.user = p \/ e.assigned = p
\* fault: a reviewer is not told that somebody else deleted its comment
OwnEntryVisible(u, p, cs) == OfUser(u, p)

EntryVisible(u, p, cs) ==
    \/ OfUser(u, p)
    \/ u.type = "delete" /\ (IsThere(cs, u) => cs[u.id].user = p)

\* The comments of a document that p loads.
Shown(cs, p) ==
    CASE readerRights[p] = "read-without-comments" -> [c \in CommentIds |-> NoComment]
      [] readerRights[p] \in ReviewRights ->
            [c \in CommentIds |-> IF OfUser(cs[c], p) THEN cs[c] ELSE NoComment]
      [] OTHER -> cs

\* The updates of a diff that p is sent.
VisibleUpdates(cu, p, cs) ==
    LET kept[k \in 0..Len(cu)] ==
          IF k = 0 THEN <<>>
          ELSE IF EntryVisible(cu[k], p, cs) THEN Append(kept[k - 1], cu[k]) ELSE kept[k - 1]
    IN  kept[Len(cu)]

FilterUpdates(cu, p, cs) ==
    CASE readerRights[p] = "read-without-comments" -> <<>>
      [] readerRights[p] \in ReviewRights -> VisibleUpdates(cu, p, cs)
      [] OTHER -> cu

Sanitized(d, p, cs, fix) ==
    [type |-> "diff", v |-> d.v, updates |-> FilterUpdates(d.updates, p, cs), fix |-> fix]

Refetch == [type |-> "refetch_doc"]
\* Its request id (`rid`) tells of which diff this speaks; here its updates do.
Confirmed(d) == [type |-> "confirm_diff", v |-> d.v, updates |-> d.updates]

KeptSince(v) == v <= docVersion /\ v + Len(docDiffs) >= docVersion

\* The diffs p misses; when they are no longer there, or p is ahead, the order to load anew.
DiffsAfter(v) == SubSeq(docDiffs, Len(docDiffs) - (docVersion - v) + 1, Len(docDiffs))
CaughtUpFrom(p, v) ==
    IF KeptSince(v)
    THEN [k \in 1..(docVersion - v) |-> Sanitized(DiffsAfter(v)[k], p, comments, TRUE)]
    ELSE <<Refetch>>

CommentsInit ==
    /\ engine \in {"python", "native"} /\ readerRights \in RightsChoices
    /\ named \in {{}} \cup {{c} : c \in CommentIds}      \* a comment may be there already
    /\ \E author \in Readers : comments = [c \in CommentIds |->
          IF c \in named THEN [NoComment EXCEPT !.user = author] ELSE NoComment]
    /\ docVersion = 0 /\ docDiffs = <<>>
    /\ reader = [p \in Readers |-> [at |-> 0, sees |-> Shown(comments, p), updates |-> <<>>,
                                    waits |-> FALSE, up |-> TRUE]]
    /\ upstream = [p \in Readers |-> NoDiff]
    /\ wire = [p \in Readers |-> <<>>]
    /\ turn = [p \in Readers |-> Resting]
    /\ composed = 0 /\ unheard = {} /\ disturbed = FALSE

-----------------------------------------------------------------------------
(* The editors.                                                            *)

\* A reader's updates of what it sees; reviewers change their own comments only.
Own(p, c) == readerRights[p] \in ReviewRights => reader[p].sees[c].user = p
OneUpdate(p, u) ==
    /\ u.type = "create" => u.user = p /\ u.id \notin named
    /\ u.type # "create" => IsThere(reader[p].sees, u)
    /\ u.type \in {"delete", "update"} => Own(p, u.id)
    /\ u.type = "update" => u.user = reader[p].sees[u.id].user
    /\ u.type = "add_answer" => u.user = p
    /\ u.type \in {"delete", "delete_answer", "update_answer"} => u.user = "nobody"
    /\ u.type \in {"delete_answer", "update_answer"} =>
          reader[p].sees[u.id].answers # {} /\ readerRights[p] \notin ReviewRights
    /\ u.assigned # "nobody" =>
          u.type \in {"create", "update"} /\ readerRights[u.assigned] \in ReviewRights

UpdateTypes == {"create", "delete", "update", "add_answer", "delete_answer", "update_answer"}
CommentUpdates == [type : UpdateTypes, id : CommentIds, user : Users, assigned : Users]
UpdatesOf(p) == {u \in CommentUpdates : OneUpdate(p, u)}

\* A diff of p on its way.  It `has` no steps of the document (none), marks of comments, a text or a
\* title (bound: a writer's marks are like its text); at its version the document `saves`, or it
\* brings images to be stored, which those who only comment may not.  (In the native service
\* text, title and saves make no difference to the comments.)
Sent(p, cu) ==
    /\ \E has \in {"none", "marks", "text", "title"}, saves \in BOOLEAN :
        /\ has \in {"text", "title"} => readerRights[p] = "write" /\ engine = "python"
        /\ has = "marks" => readerRights[p] # "write"
        /\ saves => has \in {"marks", "text"} /\ engine = "python"
        /\ upstream' = [upstream EXCEPT ![p] =
              [v |-> reader[p].at, updates |-> cu, has |-> has, saves |-> saves]]
    /\ reader' = [reader EXCEPT ![p].updates = cu, ![p].waits = TRUE]
    /\ unheard' = unheard \ {p}

\* Has a diff steps, and of those only marks of comments?
OnlyComments(d) == d.has = "marks"

AtRest(p) == reader[p].up /\ ~reader[p].waits /\ upstream[p] = NoDiff /\ turn[p] = Resting

\* The editor makes an update, or two of them: one comment deleted, another made.
Compose(p) ==
    /\ composed < MaxCommentDiffs /\ AtRest(p)
    /\ reader[p].updates = <<>> /\ readerRights[p] # "read-without-comments"
    /\ \E u \in UpdatesOf(p), w \in UpdatesOf(p) :
        /\ w = u \/ (u.type = "delete" /\ w.type = "create" /\ w.assigned = "nobody")
        /\ Sent(p, IF w = u THEN <<u>> ELSE <<u, w>>)
        /\ named' = named \cup {x.id : x \in {y \in {u, w} : y.type = "create"}}
    /\ composed' = composed + 1
    /\ UNCHANGED <<threadVars, readerRights, wire, turn, disturbed>>

\* An update that was not accepted is sent again.
Resubmit(p) ==
    /\ docVersion < MaxCommentDiffs /\ AtRest(p) /\ reader[p].updates # <<>>
    /\ Sent(p, reader[p].updates)
    /\ UNCHANGED <<threadVars, readerRights, wire, turn, composed, named, disturbed>>

\* A document loaded by REST: what the session holds at that moment.
Loaded(p) == [at |-> docVersion, sees |-> Shown(comments, p), updates |-> <<>>,
              waits |-> FALSE, up |-> TRUE]

\* A handler of which only a part is done.
MidTurn == \E q \in Readers : turn[q].step = "title"

\* A message arrives.
Receive(p) ==
    /\ wire[p] # <<>>
    /\ LET m == Head(wire[p])
           r == reader[p]
       IN \/ /\ m.type = "confirm_diff"
             /\ reader' = [reader EXCEPT ![p] =
                   IF m.v # r.at \/ m.updates # r.updates
                   THEN r      \* of a diff that is known already, or given up
                   ELSE [r EXCEPT !.at = m.v + 1, !.sees = Native_Updated(@, r.updates),
                                  !.updates = <<>>, !.waits = FALSE]]
             /\ wire' = [wire EXCEPT ![p] = Tail(@)]
             /\ UNCHANGED disturbed
          \/ /\ m.type = "diff" /\ m.v < r.at          \* known already
             /\ wire' = [wire EXCEPT ![p] = Tail(@)]
             /\ reader' = [reader EXCEPT ![p].waits = @ /\ ~m.fix]
             /\ UNCHANGED disturbed
          \/ /\ m.type = "diff" /\ m.v = r.at
             /\ \E kept \in {r.updates, <<>>} :
                   reader' = [reader EXCEPT ![p] =
                      [r EXCEPT !.at = m.v + 1, !.sees = Native_Updated(@, m.updates),
                                !.updates = IF m.fix THEN kept ELSE r.updates,
                                !.waits = r.waits /\ ~m.fix]]
             /\ wire' = [wire EXCEPT ![p] = Tail(@)]
             /\ UNCHANGED disturbed
          \/ /\ m.type = "diff" /\ m.v > r.at          \* check_version
             /\ wire' = [wire EXCEPT ![p] = Tail(@) \o CaughtUpFrom(p, r.at)]
             /\ UNCHANGED <<reader, disturbed>>
          \/ /\ m.type = "refetch_doc"
             /\ reader' = [reader EXCEPT ![p] = Loaded(p)]
             /\ wire' = [wire EXCEPT ![p] = Tail(@)]
             /\ disturbed' = (disturbed \/ MidTurn)
    /\ UNCHANGED <<threadVars, readerRights, upstream, turn, noteVars>>

\* After its connection broke down the editor connects again and asks for the version.
Reconnect(p) ==
    /\ ~reader[p].up
    /\ \E kept \in {reader[p].updates, <<>>} :
          reader' = [reader EXCEPT ![p] = [@ EXCEPT !.up = TRUE, !.waits = FALSE, !.updates = kept]]
    /\ wire' = [wire EXCEPT ![p] = CaughtUpFrom(p, reader[p].at)]
    /\ UNCHANGED <<threadVars, readerRights, upstream, turn, noteVars, disturbed>>

\* The page is loaded anew.
Reload(p) ==
    /\ reader[p].up /\ turn[p] = Resting /\ reader[p].at < docVersion
    /\ reader' = [reader EXCEPT ![p] = Loaded(p)]
    /\ wire' = [wire EXCEPT ![p] = <<>>]
    /\ upstream' = [upstream EXCEPT ![p] = NoDiff]
    /\ disturbed' = (disturbed \/ MidTurn)
    /\ UNCHANGED <<threadVars, readerRights, turn, noteVars>>

\* The owner takes from a reader the right to write.
Downgrade(p) ==
    /\ readerRights[p] = "write" /\ upstream[p] # NoDiff
    /\ ~OnlyComments(upstream[p])
    /\ readerRights' = [readerRights EXCEPT ![p] = "comment"]
    /\ UNCHANGED <<threadVars, reader, upstream, wire, turn, noteVars, disturbed>>

-----------------------------------------------------------------------------
(* handle_diff                                                             *)

\* The updates of a reviewer are of its own comments.
OwnsUpdates(p, cu) == \A k \in 1..Len(cu) :
    IF cu[k].type = "delete" THEN IsThere(comments, cu[k]) => comments[cu[k].id].user = p
    ELSE cu[k].user = p

\* Who may only comment may not send more than that.
MayHandle(p, d) ==
    /\ readerRights[p] \in CommentOnly => OnlyComments(d)
    /\ readerRights[p] \in ReviewRights => OwnsUpdates(p, d.updates)

Taken(s, n) == SubSeq(s, IF Len(s) > n THEN Len(s) - n + 1 ELSE 1, Len(s))

Pushed(d) == docDiffs' = Taken(Append(docDiffs, d), CommentHistory) /\ docVersion' = docVersion + 1

\* The sender is told, and everybody else that is connected.
Told(p, d, cs) ==
    [q \in Readers |->
        IF q = p THEN Append(wire[q], Confirmed(d))
        ELSE IF reader[q].up THEN Append(wire[q], Sanitized(d, q, cs, FALSE)) ELSE wire[q]]

\* The comments are updated and everybody is told; or an update raises, and the
\* connection ends.  What came after it in the same diff is lost to the server.  Images and
\* a save are awaited before anybody is told.
Conclude(p, d) ==
    LET r == UpdatedBy(comments, d.updates) IN
    /\ comments' = r.cs
    /\ IF r.raised
       THEN /\ wire' = [wire EXCEPT ![p] = <<>>]
            /\ reader' = [reader EXCEPT ![p].up = FALSE]
            /\ turn' = [turn EXCEPT ![p] = Resting]
       ELSE IF d.saves
       THEN /\ turn' = [turn EXCEPT ![p] = [step |-> "tell", diff |-> d]]
            /\ UNCHANGED <<wire, reader>>
       ELSE /\ wire' = Told(p, d, r.cs)
            /\ turn' = [turn EXCEPT ![p] = Resting]
            /\ UNCHANGED reader

FailsMidway(d) == UpdatedBy(comments, d.updates).cs # Native_Updated(comments, d.updates)

\* Nobody is told of a diff that may not be made, not even its sender; the native service
\* drops it when it has looked at the version.
Discard(p) ==
    /\ upstream[p] # NoDiff /\ turn[p] = Resting
    /\ ~MayHandle(p, upstream[p])
    /\ upstream' = [upstream EXCEPT ![p] = NoDiff]
    /\ unheard' = unheard \cup {p}
    /\ UNCHANGED <<threadVars, readerRights, reader, wire, turn, composed, named, disturbed>>

\* A diff for the version at hand.  A title is saved before the comments are updated.
AcceptDiff(p) ==
    /\ upstream[p] # NoDiff /\ turn[p] = Resting /\ engine = "python"
    /\ MayHandle(p, upstream[p])
    /\ upstream[p].v = docVersion
    /\ Pushed(upstream[p])
    /\ upstream' = [upstream EXCEPT ![p] = NoDiff]
    /\ IF upstream[p].has = "title"
       THEN /\ turn' = [turn EXCEPT ![p] = [step |-> "title", diff |-> upstream[p]]]
            /\ disturbed' = (disturbed \/ MidTurn)
            /\ UNCHANGED <<comments, wire, reader>>
       ELSE /\ Conclude(p, upstream[p])
            /\ disturbed' = (disturbed \/ MidTurn \/ FailsMidway(upstream[p]))
    /\ UNCHANGED <<engine, readerRights, noteVars>>

TitleSaved(p) ==
    /\ turn[p].step = "title"
    /\ Conclude(p, turn[p].diff)
    /\ disturbed' = (disturbed \/ FailsMidway(turn[p].diff))
    /\ UNCHANGED <<engine, docVersion, docDiffs, readerRights, upstream, noteVars>>

\* A diff for another version is answered with the diffs in between.
AnswerOther(p) ==
    /\ upstream[p] # NoDiff /\ turn[p] = Resting
    /\ MayHandle(p, upstream[p])
    /\ upstream[p].v # docVersion
    /\ wire' = [wire EXCEPT ![p] = @ \o CaughtUpFrom(p, upstream[p].v)]
    /\ upstream' = [upstream EXCEPT ![p] = NoDiff]
    /\ UNCHANGED <<threadVars, readerRights, reader, turn, noteVars, disturbed>>

\* The native service looks at the rights and compares the versions, ...
Native_Compare(p) ==
    /\ upstream[p] # NoDiff /\ turn[p] = Resting /\ engine = "native"
    /\ MayHandle(p, upstream[p])
    /\ upstream[p].v = docVersion
    /\ turn' = [turn EXCEPT ![p] = [step |-> "push", diff |-> upstream[p]]]
    /\ upstream' = [upstream EXCEPT ![p] = NoDiff]
    /\ UNCHANGED <<threadVars, readerRights, reader, wire, noteVars, disturbed>>

\* ... takes the lock again to keep the diff and update the comments, ...
Native_Push(p) ==
    /\ turn[p].step = "push"
    /\ Pushed(turn[p].diff)
    /\ comments' = Native_Updated(comments, turn[p].diff.updates)
    /\ turn' = [turn EXCEPT ![p].step = "tell"]
    /\ disturbed' = (disturbed \/ turn[p].diff.v # docVersion)
    /\ UNCHANGED <<engine, readerRights, reader, upstream, wire, noteVars>>

\* ... and again to tell the others; as Python does when it has not told them yet.
Tell(p) ==
    /\ turn[p].step = "tell"
    /\ wire' = Told(p, turn[p].diff, comments)
    /\ turn' = [turn EXCEPT ![p] = Resting]
    /\ UNCHANGED <<threadVars, readerRights, reader, upstream, noteVars, disturbed>>

\* Bound: a behaviour is not followed further when the copies have gone apart.
CommentsNext == ~disturbed /\ \E p \in Readers :
    \/ Compose(p) \/ Resubmit(p) \/ Receive(p) \/ Reconnect(p) \/ Reload(p) \/ Downgrade(p)
    \/ Discard(p) \/ AcceptDiff(p) \/ TitleSaved(p) \/ AnswerOther(p)
    \/ Native_Compare(p) \/ Native_Push(p) \/ Tell(p)

-----------------------------------------------------------------------------
CommentEntries == [user : Users, assigned : Users, answers : SUBSET Readers, answered : BOOLEAN]

CommentsTypeOK ==
    /\ engine \in {"python", "native"}
    /\ comments \in [CommentIds -> CommentEntries]
    /\ docVersion \in Nat /\ Len(docDiffs) <= CommentHistory
    /\ readerRights \in [Readers -> AllRights]
    /\ \A p \in Readers : reader[p].sees \in [CommentIds -> CommentEntries]

\* A reader that has the version of the server has the server's comments: all of them, or,
\* when it is one that only reviews, those it wrote; one without comments none.
HasVersion(p) == reader[p].up /\ reader[p].at = docVersion /\ ~reader[p].waits
CopiesAgree == \A p \in Readers : HasVersion(p) =>
    IF readerRights[p] \in ReviewRights
    THEN \A c \in CommentIds : comments[c].user = p <=> reader[p].sees[c].user = p
    ELSE reader[p].sees = Shown(comments, p)

\* Nobody waits for the answer to a diff that is no longer anywhere, except who only comments
\* or reviews and whose diff was dropped: one without marks of comments, as for a reply, or
\* one sent when its sender still could write.
EveryDiffAnswered == \A p \in Readers :
    /\ reader[p].up /\ reader[p].waits /\ wire[p] = <<>>
    /\ upstream[p] = NoDiff /\ turn[p] = Resting
    => p \in unheard /\ readerRights[p] \in CommentOnly

\* The copies of the comments stay together through crossing diffs, diffs that come late or
\* not at all, updates of comments that are gone and connections that end on them; except
\* that (`disturbed`) an update that raises takes the rest of its diff with it, that a title
\* is awaited with the version raised and the comments not yet updated, and that the native
\* service lets go of its lock between comparing the versions and raising it.
CommentsFollow == ~disturbed /\ (\A q \in Readers : turn[q] = Resting) =>
    CopiesAgree /\ EveryDiffAnswered
=============================================================================
