-------------------------- MODULE DocumentSession --------------------------
(***************************************************************************)
(* The editing session of one document, as the websocket consumer of      *)
(* document/consumers.py keeps it: the class-wide registry                *)
(* runtime_sessions, the session dictionaries it points to, the           *)
(* connections that open, join, edit and leave them, and the document row *)
(* that document/helpers/document_store.py reads and writes.              *)
(*                                                                         *)
(* The consumers share one event loop.  A handler runs without            *)
(* interruption from one suspension to the next, and a step of this       *)
(* module is one such stretch.  The suspensions are the database calls    *)
(* (they run in one worker thread, in the order they were submitted);     *)
(* sending on a socket does not suspend.  The handlers of one connection  *)
(* run one after the other.                                               *)
(*                                                                         *)
(* The document tree is abstracted to the sequence of the diffs applied   *)
(* to it.  Titles, comments, the bibliography and images are not told     *)
(* apart: a diff that carries a title or images is one whose handler      *)
(* suspends once more ("sidecar").                                        *)
(***************************************************************************)
EXTENDS Integers, Sequences, FiniteSets

CONSTANTS
    Conns,          \* the websocket connections that may ever be made
    HistoryLength,  \* WebsocketConsumer.history_length
    SaveInterval,   \* settings.DOC_SAVE_INTERVAL
    RustEngine,     \* PROSEMIRROR_BACKEND is "rust", not "python"
    BlankRow,       \* the row starts with empty content, to be filled from the template
    Sidecars,       \* environment: may diffs carry titles or images?
    LastStays,      \* environment: does the last participant stay connected?
    MaxLive,        \* environment: at most this many connections at a time
    MaxDiffs,       \* bound on the diffs accepted in a behaviour
    MaxCrashes      \* bound on the crashes in a behaviour

ASSUME ConnsAssumption == IsFiniteSet(Conns)
ASSUME LengthAssumption == HistoryLength \in Nat \ {0} /\ SaveInterval \in Nat \ {0}
ASSUME FlagAssumption == {RustEngine, BlankRow, Sidecars, LastStays} \subseteq BOOLEAN
ASSUME BoundAssumption == {MaxLive, MaxDiffs, MaxCrashes} \subseteq Nat

VARIABLES
    row,        \* the document's row in the database
    registry,   \* runtime_sessions[document_id]: a session, or None
    sessions,   \* every session dictionary made so far
    at,         \* where each connection's handler is suspended
    ref,        \* self.session of each connection
    loaded,     \* the document instance a connection read while subscribing
    saving,     \* the save a connection has in flight
    queue,      \* the connections whose save waits for the database thread
    msg,        \* the accepted diff a connection has still to announce
    confirmed,  \* the diffs with steps confirmed to their sender, less those
                \* a crash took
    nextId,     \* the identity of the next diff
    crashes     \* how often the process was killed

vars == <<row, registry, sessions, at, ref, loaded, saving, queue, msg,
          confirmed, nextId, crashes>>

None == 0
Ids == Nat \ {0}

Diff == [v : Nat,              \* the version it was made for
         id : Ids,
         steps : BOOLEAN]       \* does it change the text?
Doc == [version : Nat, content : Seq(Ids), diffs : Seq(Diff), blank : BOOLEAN]
Session == [doc : Doc,             \* session["doc"], the model instance
            node : Seq(Ids),       \* session["node"]
            dirty : BOOLEAN,       \* session["node_updates"]
            saved : Nat,           \* session["last_saved_version"]
            parts : SUBSET Conns,  \* session["participants"]
            dead : BOOLEAN,        \* node and diffs were set to None
            opened : Nat]          \* history: the version it was opened with
Save == [session : Nat,            \* the session being saved
         doc : Doc,                \* the values the Rust engine's update was given
         node : BOOLEAN,           \* is there a node to serialise?
         then : {"announce", "refetch", "cleanup"}]

\* A handler is suspended in one of these places; "idle" is between messages.
Waiting == {"read", "init", "inited", "joined", "authorizing", "sidecar",
            "saving", "wrote"}
Places == Waiting \cup {"new", "idle", "closed", "failed"}
InSession == {"joined", "idle", "authorizing", "sidecar", "saving", "wrote"}
Connected == {c \in Conns : at[c] \in Waiting \cup {"idle"}}

LastN(s, n) == SubSeq(s, Len(s) - n + 1, Len(s))
\* diffs[-history_length:]
Trim(ds) == IF Len(ds) > HistoryLength THEN LastN(ds, HistoryLength) ELSE ds
\* The stored diffs reach back to version v, and those from v on.
ReachesBack(d, v) == v <= d.version /\ v + Len(d.diffs) >= d.version
Missing(d, v) == LastN(d.diffs, d.version - v)

EmptyDoc == [version |-> 0, content |-> <<>>, diffs |-> <<>>, blank |-> FALSE]
NoSave == [session |-> None, doc |-> EmptyDoc, node |-> FALSE, then |-> "refetch"]

Init ==
    /\ row = [EmptyDoc EXCEPT !.blank = BlankRow]
    /\ registry = None
    /\ sessions = <<>>
    /\ at = [c \in Conns |-> "new"]
    /\ ref = [c \in Conns |-> None]
    /\ loaded = [c \in Conns |-> EmptyDoc]
    /\ saving = [c \in Conns |-> NoSave]
    /\ queue = <<>>
    /\ msg = [c \in Conns |-> None]
    /\ confirmed = {}
    /\ nextId = 1
    /\ crashes = 0

-----------------------------------------------------------------------------
(* Saving.  save_document_async looks the session up by document id, skips *)
(* when the version is the one saved last, and otherwise hands the         *)
(* document to the database thread.  The operators take the sessions as    *)
(* the calling handler has left them.                                      *)

\* fault: a save is skipped one version too often
SaveNeededLate(ss) ==
    registry # None /\ ss[registry].doc.version > ss[registry].saved + 1

SaveNeeded(ss) ==
    registry # None /\ ss[registry].doc.version # ss[registry].saved

\* fault: the node is not serialised
StartSaveNoNode(c, ss, sv, then) ==
    /\ sessions' = ss
    /\ saving' = [sv EXCEPT ![c] =
            [session |-> registry, doc |-> ss[registry].doc, node |-> FALSE,
             then |-> then]]
    /\ queue' = Append(queue, c)
    /\ at' = [at EXCEPT ![c] = "saving"]

\* The Python engine serialises the node into doc.content at once and reads the
\* other fields in the thread; the Rust engine collects all values at once.
StartSave(c, ss, sv, then) ==
    LET s == ss[registry]
        d == IF s.dirty THEN [s.doc EXCEPT !.content = s.node] ELSE s.doc
    IN  /\ sessions' = IF RustEngine THEN ss
                       ELSE [ss EXCEPT ![registry].doc = d]
        /\ saving' = [sv EXCEPT ![c] =
                [session |-> registry, doc |-> d, node |-> s.dirty, then |-> then]]
        /\ queue' = Append(queue, c)
        /\ at' = [at EXCEPT ![c] = "saving"]

\* Confirm an accepted diff to its sender and send it to the others.
Confirm(m) == confirmed' = confirmed \cup ({m} \ {None})

\* fault: the session stays in the registry
CleanupKeeps(c, ss) ==
    /\ sessions' = IF registry = None THEN ss ELSE [ss EXCEPT ![registry].dead = TRUE]
    /\ at' = [at EXCEPT ![c] = "closed"]
    /\ registry' = registry

\* The end of disconnect: the session to take apart is looked up again.  When
\* another connection has removed it meanwhile, the handler raises.
Cleanup(c, ss) ==
    IF registry = None
    THEN /\ sessions' = ss
         /\ at' = [at EXCEPT ![c] = "failed"]
         /\ registry' = None
    ELSE /\ sessions' = [ss EXCEPT ![registry].dead = TRUE]
         /\ at' = [at EXCEPT ![c] = "closed"]
         /\ registry' = None

\* What the handler does once the save is over (or was not needed).
Resume(c, ss, then) ==
    /\ IF then = "cleanup"
       THEN Cleanup(c, ss)
       ELSE /\ sessions' = ss
            /\ at' = [at EXCEPT ![c] = "idle"]
            /\ UNCHANGED registry
    /\ IF then = "announce"
       THEN Confirm(msg[c]) /\ msg' = [msg EXCEPT ![c] = None]
       ELSE UNCHANGED <<confirmed, msg>>

\* Call save_document_async and go on with "then" when it returns.
SaveThen(c, ss, then) ==
    \/ /\ SaveNeeded(ss)
       /\ StartSave(c, ss, saving, then)
       /\ UNCHANGED <<registry, confirmed, msg>>
    \/ /\ ~SaveNeeded(ss)
       /\ Resume(c, ss, then)
       /\ UNCHANGED <<saving, queue>>

\* fault: the content as it was when the session was opened is written
OpenedContent(s) == s.doc.content

\* The content an ORM save leaves in the row: the Rust engine does not write it.
KeptContent(s) == IF RustEngine THEN row.content ELSE s.doc.content

\* The one database thread takes the saves in the order they were submitted.
Oldest(q) == 1

\* The database thread performs the oldest save that waits for it.
WriteRow(c) ==
    LET s == sessions[saving[c].session]
        d == saving[c].doc
        k == Oldest(queue)
    IN  /\ at[c] = "saving"
        /\ queue # <<>> /\ queue[k] = c
        /\ queue' = SubSeq(queue, 1, k - 1) \o SubSeq(queue, k + 1, Len(queue))
        /\ \/ /\ RustEngine /\ saving[c].node
              /\ row' = [d EXCEPT !.blank = FALSE]
              /\ at' = [at EXCEPT ![c] = "wrote"]
           \/ \* an ORM save reads the instance now; the Rust engine leaves content alone
              /\ ~(RustEngine /\ saving[c].node)
              /\ ~s.dead
              /\ row' = [s.doc EXCEPT
                            !.content = KeptContent(s),
                            !.blank = IF RustEngine THEN row.blank ELSE FALSE]
              /\ at' = [at EXCEPT ![c] = "wrote"]
           \/ \* diffs is None: the column refuses it and the handler raises
              /\ ~(RustEngine /\ saving[c].node)
              /\ s.dead
              /\ at' = [at EXCEPT ![c] = "failed"]
              /\ UNCHANGED row
        /\ UNCHANGED <<registry, sessions, ref, loaded, saving, msg, confirmed,
                       nextId, crashes>>

\* save_document_async resumes: the version is read now, not as it was written.
FinishSave(c) ==
    /\ at[c] = "wrote"
    /\ LET n == saving[c].session
       IN  Resume(c, [sessions EXCEPT ![n].saved = sessions[n].doc.version,
                                      ![n].dirty = FALSE], saving[c].then)
    /\ saving' = [saving EXCEPT ![c] = NoSave]
    /\ UNCHANGED <<row, ref, loaded, queue, nextId, crashes>>

-----------------------------------------------------------------------------
(* Subscribing.                                                            *)

\* init_access has read the document; a collaborator's handler then waits for the
\* access right as well.
ReadDoc(c) ==
    /\ at[c] = "new"
    /\ Cardinality(Connected) < MaxLive
    /\ loaded' = [loaded EXCEPT ![c] = row]
    /\ at' = [at EXCEPT ![c] = "read"]
    /\ UNCHANGED <<row, registry, sessions, ref, saving, queue, msg, confirmed,
                   nextId, crashes>>

\* fault: off by one, the sole participant is overlooked
ServedByTwo == registry # None /\ Cardinality(sessions[registry].parts) > 1

ServedAlready == registry # None /\ sessions[registry].parts # {}

JoinSession(c) ==
    /\ at[c] = "read"
    /\ ServedAlready
    /\ sessions' = [sessions EXCEPT ![registry].parts = @ \cup {c}]
    /\ ref' = [ref EXCEPT ![c] = registry]
    /\ at' = [at EXCEPT ![c] = "joined"]
    /\ UNCHANGED <<row, registry, loaded, saving, queue, msg, confirmed, nextId,
                   crashes>>

\* initialize_document_content: the template is written, the content column only.
StartInit(c) ==
    /\ at[c] = "read"
    /\ ~ServedAlready
    /\ loaded[c].blank
    /\ loaded' = [loaded EXCEPT ![c].blank = FALSE, ![c].content = <<>>]
    /\ at' = [at EXCEPT ![c] = "init"]
    /\ UNCHANGED <<row, registry, sessions, ref, saving, queue, msg, confirmed,
                   nextId, crashes>>

WriteInit(c) ==
    /\ at[c] = "init"
    /\ row' = [row EXCEPT !.content = loaded[c].content, !.blank = FALSE]
    /\ at' = [at EXCEPT ![c] = "inited"]
    /\ UNCHANGED <<registry, sessions, ref, loaded, saving, queue, msg, confirmed,
                   nextId, crashes>>

OpenSession(c) ==
    /\ \/ at[c] = "read" /\ ~ServedAlready /\ ~loaded[c].blank
       \/ at[c] = "inited"
    /\ sessions' = Append(sessions,
            [doc |-> loaded[c], node |-> loaded[c].content, dirty |-> FALSE,
             saved |-> loaded[c].version, parts |-> {c}, dead |-> FALSE,
             opened |-> loaded[c].version])
    /\ registry' = Len(sessions')
    /\ ref' = [ref EXCEPT ![c] = Len(sessions')]
    /\ at' = [at EXCEPT ![c] = "joined"]
    /\ UNCHANGED <<row, loaded, saving, queue, msg, confirmed, nextId, crashes>>

-----------------------------------------------------------------------------
(* Messages.  "joined" is the rest of the subscribe handler, which         *)
(* reconciles the version the client came with.                            *)

\* The client is up to date, can be sent the missing diffs, or reconnects.
Reconcile(c) ==
    /\ at[c] = "joined"
    /\ at' = [at EXCEPT ![c] = "idle"]
    /\ UNCHANGED <<row, registry, sessions, ref, loaded, saving, queue, msg, confirmed,
                   nextId, crashes>>

\* unfixable: save, then have the client fetch the document again.  Called by
\* check_version, by the resending of messages, and from handle_diff.
Unfixable(c) ==
    /\ at[c] \in {"joined", "idle"}
    /\ SaveThen(c, sessions, "refetch")
    /\ UNCHANGED <<row, ref, loaded, nextId, crashes>>

\* A message that changes the document is looked at only while there is a session,
\* and only after the sender's rights have been read again.
ReceiveDiff(c) ==
    /\ at[c] = "idle"
    /\ registry # None
    /\ at' = [at EXCEPT ![c] = "authorizing"]
    /\ UNCHANGED <<row, registry, sessions, ref, loaded, saving, queue, msg, confirmed,
                   nextId, crashes>>

\* Rights are gone, too low for the diff, or the client is sent the diffs it lacks.
DropDiff(c) ==
    /\ at[c] = "authorizing"
    /\ at' = [at EXCEPT ![c] = "idle"]
    /\ UNCHANGED <<row, registry, sessions, ref, loaded, saving, queue, msg, confirmed,
                   nextId, crashes>>

\* The steps do not apply, the client is ahead of the server, or too far behind.
RefuseDiff(c) ==
    /\ at[c] = "authorizing"
    /\ SaveThen(c, sessions, "refetch")
    /\ UNCHANGED <<row, ref, loaded, nextId, crashes>>

\* fault: off by one
IsDueLate(v) == v % (SaveInterval + 1) = 0

IsDue(v) == v % SaveInterval = 0

\* The part of handle_diff after title and images: save every SaveInterval versions.
\* The version is read from the sender's own session, the save is the registry's.
SaveIfDue(c, ss, sv, m) ==
    IF IsDue(ss[ref[c]].doc.version) /\ SaveNeeded(ss)
    THEN /\ StartSave(c, ss, sv, "announce")
         /\ msg' = [msg EXCEPT ![c] = m]
         /\ UNCHANGED <<registry, confirmed>>
    ELSE /\ sessions' = ss
         /\ at' = [at EXCEPT ![c] = "idle"]
         /\ saving' = sv
         /\ Confirm(m)
         /\ msg' = [msg EXCEPT ![c] = None]
         /\ UNCHANGED <<registry, queue>>

\* fault: diffs for older versions are accepted as well
IsCurrentOrOlder(pv, d) == pv <= d.version

\* A diff is accepted only when it was made for the session's version.
IsCurrent(pv, d) == pv = d.version

\* fault: a diff with steps does not mark the node as changed
AcceptedClean(s, diff) ==
    [s EXCEPT !.node = IF diff.steps THEN Append(s.node, diff.id) ELSE s.node,
              !.doc.diffs = Trim(Append(s.doc.diffs, diff)),
              !.doc.version = s.doc.version + 1]

\* The sender's session once the diff sent for version pv is accepted.
Accepted(s, diff) ==
    [s EXCEPT !.node = IF diff.steps THEN Append(s.node, diff.id) ELSE s.node,
              !.dirty = s.dirty \/ diff.steps,
              !.doc.diffs = Trim(Append(s.doc.diffs, diff)),
              !.doc.version = s.doc.version + 1]

\* An update of the Rust engine that waits for the database thread refers to the
\* list of diffs itself: handle_diff appends to that list before it replaces it.
Aliased(n, diff) ==
    [x \in Conns |->
        IF RustEngine /\ at[x] = "saving" /\ saving[x].session = n
           /\ saving[x].doc.version = sessions[n].doc.version
        THEN [saving[x] EXCEPT !.doc.diffs = Append(@, diff)]
        ELSE saving[x]]

\* handle_diff accepts a diff for the current version.  A diff without steps
\* changes comments, the bibliography or the title only.
AcceptDiff(c) ==
    /\ at[c] = "authorizing"
    /\ nextId <= MaxDiffs
    /\ ~sessions[ref[c]].dead
    /\ \E pv \in 0..MaxDiffs, steps \in BOOLEAN, sidecar \in {FALSE, Sidecars} :
        LET n == ref[c]
            diff == [v |-> pv, id |-> nextId, steps |-> steps]
            ss == [sessions EXCEPT ![n] = Accepted(@, diff)]
            sv == Aliased(n, diff)
            m == IF steps THEN nextId ELSE None
        IN  /\ IsCurrent(pv, sessions[n].doc)
            /\ IF sidecar
               THEN /\ sessions' = ss
                    /\ saving' = sv
                    /\ at' = [at EXCEPT ![c] = "sidecar"]
                    /\ msg' = [msg EXCEPT ![c] = m]
                    /\ UNCHANGED <<registry, queue, confirmed>>
               ELSE SaveIfDue(c, ss, sv, m)
    /\ nextId' = nextId + 1
    /\ UNCHANGED <<row, ref, loaded, crashes>>

\* save_document_title or update_document_images has returned.
AfterSidecar(c) ==
    /\ at[c] = "sidecar"
    /\ SaveIfDue(c, sessions, saving, msg[c])
    /\ UNCHANGED <<row, ref, loaded, nextId, crashes>>

-----------------------------------------------------------------------------
(* Leaving.                                                                *)

\* fault: counted before the participant is removed
OneLeft(ps) == Cardinality(ps) = 1

NobodyLeft(ps) == ps = {}

\* disconnect: leave the session; the last one out saves the document and removes
\* the session from the registry.
Disconnect(c) ==
    LET ss == [sessions EXCEPT ![ref[c]].parts = @ \ {c}]
    IN  /\ at[c] = "idle"
        /\ LastStays => ss[ref[c]].parts # {}
        /\ IF registry # None /\ NobodyLeft(ss[ref[c]].parts)
           THEN SaveThen(c, ss, "cleanup")
           ELSE /\ sessions' = IF registry = None THEN sessions ELSE ss
                /\ at' = [at EXCEPT ![c] = "closed"]
                /\ UNCHANGED <<registry, saving, queue, msg, confirmed>>
        /\ UNCHANGED <<row, ref, loaded, nextId, crashes>>

\* A handler raises: a numbered message ran ahead (send_json does not exist), or the
\* session in hand was taken apart and its diffs are None.  The connection is gone
\* but disconnect never runs, so it stays a participant.
Fail(c) ==
    /\ \/ at[c] = "idle"
       \/ at[c] = "authorizing" /\ sessions[ref[c]].dead
    /\ at' = [at EXCEPT ![c] = "failed"]
    /\ UNCHANGED <<row, registry, sessions, ref, loaded, saving, queue, msg, confirmed,
                   nextId, crashes>>

\* Everything in memory is gone; clients may come back on new connections.
Stop ==
    /\ registry' = None
    /\ at' = [c \in Conns |-> IF at[c] = "new" THEN "new" ELSE "closed"]
    /\ saving' = [c \in Conns |-> NoSave]
    /\ queue' = <<>>
    /\ msg' = [c \in Conns |-> None]
    /\ UNCHANGED <<sessions, ref, loaded, nextId>>

\* The process is killed: what was confirmed and not stored is lost.
Crash ==
    /\ Connected # {}
    /\ crashes < MaxCrashes
    /\ Stop
    /\ crashes' = crashes + 1
    /\ confirmed' = {i \in confirmed : \E k \in 1..Len(row.content) : row.content[k] = i}
    /\ UNCHANGED row

\* What save_document writes, at once.
Flushed(s) == [s.doc EXCEPT !.content = IF s.dirty THEN s.node ELSE KeptContent(s)]

\* The process ends: save_all_docs runs at exit, after the database thread has
\* finished what was submitted to it.
Shutdown ==
    /\ Connected # {}
    /\ queue = <<>>
    /\ IF SaveNeeded(sessions) THEN row' = Flushed(sessions[registry]) ELSE UNCHANGED row
    /\ Stop
    /\ UNCHANGED <<confirmed, crashes>>

-----------------------------------------------------------------------------
\* The steps the event loop and the database thread take by themselves.
Progress(c) ==
    \/ JoinSession(c) \/ StartInit(c) \/ WriteInit(c) \/ OpenSession(c)
    \/ Reconcile(c) \/ DropDiff(c) \/ RefuseDiff(c) \/ AcceptDiff(c)
    \/ AfterSidecar(c) \/ WriteRow(c) \/ FinishSave(c)

Next ==
    \/ \E c \in Conns :
        \/ Progress(c)
        \/ ReadDoc(c) \/ Unfixable(c) \/ ReceiveDiff(c) \/ Disconnect(c) \/ Fail(c)
    \/ Crash \/ Shutdown

Spec == Init /\ [][Next]_vars
FairSpec == Spec /\ \A c \in Conns : WF_vars(Progress(c))

-----------------------------------------------------------------------------
(* Properties.                                                             *)

\* Every variable stays in its domain, and every session number in use is one of
\* a session that was made.
TypeOK ==
    /\ row \in Doc
    /\ registry \in 0..Len(sessions)
    /\ sessions \in Seq(Session)
    /\ at \in [Conns -> Places]
    /\ ref \in [Conns -> 0..Len(sessions)]
    /\ loaded \in [Conns -> Doc]
    /\ saving \in [Conns -> Save]
    /\ queue \in Seq(Conns)
    /\ msg \in [Conns -> Nat]
    /\ confirmed \subseteq Ids
    /\ nextId \in Ids
    /\ crashes \in Nat

\* A connection at work has a session, and so has a save in flight.
HandlersPlaced ==
    \A c \in Conns :
        /\ at[c] \in InSession => ref[c] \in 1..Len(sessions)
        /\ at[c] \in {"saving", "wrote"} => saving[c].session \in 1..Len(sessions)

\* The registered session has not been taken apart.
LiveRegistry == registry # None => ~sessions[registry].dead

\* Counted from the newest, the stored diffs are for the versions counted down from
\* the session's own, as far back as the session itself has seen them come in.
ExactHistory(s) ==
    /\ s.opened <= s.doc.version
    /\ \A k \in 1..Len(s.doc.diffs) :
        LET v == s.doc.version - 1 - (Len(s.doc.diffs) - k)
        IN  v >= s.opened => s.doc.diffs[k].v = v

HistoryKept == \A n \in 1..Len(sessions) : ExactHistory(sessions[n])

\* The diffs stored for catching clients up are the right ones: for every version
\* since the session was opened that the list is said to reach back to, the tail
\* that would be sent holds exactly the diffs from that version on, in order.
CatchUpExact ==
    \A n \in 1..Len(sessions) :
        LET d == sessions[n].doc
        IN  \A v \in sessions[n].opened..d.version :
                ReachesBack(d, v) =>
                    \A k \in 1..(d.version - v) : Missing(d, v)[k].v = v + k - 1

\* While the last participant stays, everyone connected is a participant of the
\* one registered session: nobody edits a copy the others do not see.
OneSharedSession ==
    \A c \in Conns :
        at[c] \in InSession =>
            /\ ref[c] = registry
            /\ c \in sessions[registry].parts

\* The registered session is served: when it has no participant left, a handler is
\* at work that saves this very session and will then remove it.
RegisteredIsServed ==
    registry # None /\ sessions[registry].parts = {} =>
        \E c \in Conns :
            /\ at[c] \in {"saving", "wrote"}
            /\ saving[c].then = "cleanup" /\ saving[c].session = registry

\* Several saves may be in flight at once, and with the Rust engine each carries the
\* text of the moment it was submitted; the stored text never loses what it had.
TextNeverRegresses ==
    [][/\ Len(row'.content) >= Len(row.content)
       /\ SubSeq(row'.content, 1, Len(row.content)) = row.content]_row

\* Once nobody is connected and nothing runs, every diff that was confirmed to its
\* sender is in the stored text.
Durable ==
    registry = None /\ (\A c \in Conns : at[c] \notin Waiting \cup {"idle"}) =>
        \A i \in confirmed : \E k \in 1..Len(row.content) : row.content[k] = i

\* What is in the row is the document as it was at the stored version: the stored
\* diffs are older than it, and those that change the text are in the stored text.
RowIsAVersion ==
    \A k \in 1..Len(row.diffs) :
        /\ row.diffs[k].v < row.version
        /\ row.diffs[k].steps =>
              \E i \in 1..Len(row.content) : row.content[i] = row.diffs[k].id

\* A crash between two handlers costs fewer than SaveInterval diffs.
LossBounded ==
    registry # None /\ (\A c \in Conns : at[c] \notin {"sidecar", "saving", "wrote"}) =>
        sessions[registry].doc.version - row.version < SaveInterval

\* last_saved_version tells what is stored: a version up to it need not be saved.
SavedIsStored ==
    registry # None => sessions[registry].saved <= row.version

\* A session is taken apart only when nobody takes part in it.
OnlyEmptySessionsRemoved ==
    [][\A n \in 1..Len(sessions) :
        ~sessions[n].dead /\ sessions'[n].dead => sessions'[n].parts = {}]_sessions

\* A session without participants does not stay registered.
EmptySessionGoes ==
    \A n \in 1..3 :
        (n <= Len(sessions) /\ registry = n /\ sessions[n].parts = {}) ~> (registry # n)

\* What the authors see: the live text while a session is registered, else the
\* stored one.
Text == IF registry = None THEN row.content ELSE sessions[registry].node
Log == INSTANCE DurableLog WITH Item <- 1..MaxDiffs, log <- Text, stored <- row.content,
                           crashed <- crashes
LogSpec == Log!Spec
=============================================================================
