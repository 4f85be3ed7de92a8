# Fidus Writer server backend: verification project

TLA+ models of the server side of Fidus Writer, the collaborative editor, with
the TLC runs that check them and the TLAPS proofs about them. All paths below
are relative to `src/`; `views.py`, `consumers.py` and `models.py` without a
directory are those of `fiduswriter/document/`.

## 1. Inventory

| Component | State it keeps | Operations | Hard behaviour | What makes it correct |
|---|---|---|---|---|
| Document sessions: `fiduswriter/document/consumers.py`, `helpers/document_store.py`, `helpers/session_user_info.py`, `models.py` | class-wide registry `runtime_sessions`; per document a session (`doc`, `node`, `node_updates`, `participants`, `last_saved_version`); the `Document` row | subscribe (open or join), check version, diff, save, disconnect, save at exit | handlers of many connections interleave at every database call; several saves in flight; crash; failing handlers | one session for all, exact catch-up, nothing confirmed is lost, the row is one version, sessions go when empty |
| Comments and participants of a session: `consumers.py` 584-790, 1329-1493, `helpers/comment_filter.py`, `native/src` | the session's comments; the list of participants | updates of comments in diffs; filtering by role; making and sending lists | updates of what is gone raise half-way; awaits between making and sending | every reader has the comments it may see; everybody has the newest list |
| Message protocol: `fiduswriter/base/base_consumer.py`, `native/src/protocol.rs` | per connection two counters and the last ten messages | send, resend, receive (next, repeated, ahead, crossing) | lost, repeated and crossing messages; rewinding the counter | every message once and in order, or the server gives up openly |
| Authorization: `session_user_info.py`, `token_access.py`, `views.py`, `user/models.py` | access rights, invitations, share tokens, cached rights of a connection | initial check, refresh before a change, `access_changed` notice, requests that change rights | rights changed while a handler is under way; requests of several statements | no change is handled on rights that were gone; whoever loses a right leaves; none is lost |
| End-to-end encryption: `consumers.py` 833-878, 976-1260, `e2ee_guards.py`, `views.py` 2205-2450, `user/views.py` | salt, snapshot version, opaque diffs, key envelopes, the key record of an account | diff, snapshot request, snapshot, rekey, envelopes over REST, keys of an account | rekeying in a worker thread while diffs come in; trimming without a snapshot; stale envelopes; several devices | snapshot and diffs always make up the document; every holder has the key; nobody replaces keys unseen |
| Native service: `native/src/*.rs` | the same sessions and counters behind mutexes | the same | real threads: every lock scope is a step | the same |
| Presence and system messages: `fiduswriter/base/consumers.py`, `base/helpers/ws.py` | list of clients, presence rows | connect, disconnect, pong, fan-out, clean-up at exit, crash | list changed while iterated; fan-outs that meet; servers that are gone | every connected client is told; no presence outlives its server |
| Document REST views: `document/views.py` | rows and files | loading, saving and importing without a websocket, creation, deletion, revisions | each reads, decides and writes whole rows later | editors agree with the row; a revision's file is there |
| Images (`usermedia`), books (`book`) | rows that refer to each other | save, share, delete, accept an invitation | images go with their last use; rights to chapters follow rights to books | no image without use, no use without image; readers of a book may read it |
| Templates and styles: `user_template_manager`, `style`, `document/signals.py` | rows and their cascades | make, copy, save, delete | look first, act later | a document has its template and its styles |
| Accounts: `user/views.py` | the user's row, addresses, devices, avatar, sessions | profile, password, addresses, login, two-factor login, deletion | whole rows written back; several statements | what was set stays set; one primary address; two-factor login on or off as switched |
| Bibliography: `bibliography/views.py` | entries, categories | save, delete, list for a device | a device is told by second and number only | a device that seems up to date is |
| Overviews, moving and mails: `document/views.py` 78-272, 525-628, 1280-1356, 2024-2073, `book/views.py` 23-217, 446-594, `document/emails.py` | the rights rows, read several times for an answer | list, export, notify, ask for access, move, share | several lookups for one answer; whole rows written back; mails sent before the row is stored | what a holder is shown or told goes with his right; nothing withdrawn comes back |
| Set-up: `base/management/commands/runserver.py`, `base/helpers/ws.py`, `get_ws_base`, `check_server` | `PORTS`, the workers and maintenance pages at the ports of each machine | start, reload, stop; give a browser its port; redirect | configurations of several ages, workers left behind | all who edit a document come to one process |
| Feedback, ProseMirror engines, other management commands, frontend assets | none of their own | | | |

Interaction: a websocket frame enters `receive` of the message protocol, which
passes it to the document consumer's `handle_message`. The consumer works on its
session and on the row, and announces diffs to the other connections through
`send_message` of the protocol. REST views change rows and rights and notify the
sessions. All Python consumers share one event loop; the ORM's async calls run
in one worker thread, first come, first served. Views run in several processes,
and (without `ATOMIC_REQUESTS`) each of their statements is a transaction of its own unless
the code opens one. The native service is another process that speaks the same
protocol over the same rows.

## 2. Modules

| Module | Models | State and actions |
|---|---|---|
| `DocumentSession` | the sessions of one document | `row`, `registry`, `sessions`: row, `runtime_sessions` entry, session dictionaries; `at`: where a handler is suspended; `ref`: `self.session`; `loaded`, `saving`, `queue`, `msg`: what a suspended handler holds and the database thread's queue |
| `DurableLog` | what a document promises: an append-only text and a stored prefix of it; only a crash takes text back | abstract specification, implemented by `DocumentSession` |
| `Comments` | the comments of an open document, both services | `comments`, `docVersion`, `docDiffs`: the session's; `reader`, `upstream`, `wire`: the editors and what is on its way; `turn`: the rest of a `handle_diff` |
| `Participants` | the list of participants, both services | `present`: `participants`; `fetching`: lists whose pictures are awaited; `told`: the list each client has |
| `MessageProtocol` | one connection with its client and the network, both services | `server`, `client`, `ring`: `messages["server"]`, `["client"]`, `["last_ten"]`; `pending`: what a suspended handler has still to send; `down`, `up`: frames under way; the client's side is external |
| `Sharing` | who may do what with one document | `right`, `invite`, `invited`, `token`: the rows; `request`: the rest of each request; `conn`: each connection with its copy of its rights; `notice`: queued `access.changed` messages |
| `EncryptedSession` | an encrypted document in its session | `doc`, `row`, `saved`: instance, row and `last_saved_version`; `keys`: epoch of each holder's `DocumentEncryptionKey`; `at`, `queue`: handlers and database thread; `rekey`, `txn`: a rekey under way and its transaction |
| `Envelopes` | the wrapped keys of an encrypted document over REST | `epoch`, `envelope`, `mayRead`: the rows; `knowsKey`: the browsers; `request`, `rekeying`: the rest of a request, of a rekey |
| `EncryptionKeys` | the key record of an account | `record`: `UserEncryptionKey`; `known`: what each device has seen; `call`: the rest of a device's request |
| `NativeSession` | the native service's sessions of one document | `registry`, `sessions`: `REGISTRY`, `DocumentSession`; `at`, `msg`, `snap`: where a task is and what it holds; `ctx`, `own`: the two copies of the rights; `kicked`, `leaving`, `refresh`; `poisoned`: mutexes a task died with; `watching`: the `rights_refresher` |
| `SystemMessages` | presence and fan-out over several servers | `clients`: `SystemMessageConsumer.clients`; `rows`: `Presence`; `post`: the requests that send; `fan`: the connection of each to each server, and the loop over the list there |
| `Library` | a book with its chapters, readers and cover, documents and images | `access`, `shared`, `chapters`, `linked`, `owned`: `AccessRight`, `BookAccessRight`, `Chapter`, `DocumentImage`, `UserImage`; `job`: the rest of each request |
| `DirectEditing` | editing without a websocket | `row`; `editor`: the browsers; `busy`: the rest of each request |
| `Templates` | document templates and styles | `template`, `style`, `document`: rows; `task`: the rest of each request |
| `Revisions` | saved revisions and their files | `revision`: rows; `storage`, `legacy`, `quarantine`: files; `duty`: the rest of each request; `cleaner`: the command |
| `Accounts` | an account | `user`, `address`, `device`, `avatar`, `session`: rows; `errand`: the rest of each request |
| `Bibliography` | the bibliography of a user | `entry`, `category`: rows; `copy`, `shelf`: what devices have; `chore`: the rest of each request |
| `Overview` | what the holder of a right is shown and told | `holding`, `exists`, `text`: the row of the right, the document or book and its text; `telling`: the rest of each request; `mailed`, `ordered`, `written`, `held`: what was last told, given, stored, and the rights of the time of each request |
| `Routing` | the server process of a document | `settings`: the `PORTS` of each machine; `runner`, `listener`, `starting`: its runserver, who listens at each port, the workers on their way; `visitor`: the browsers, with the port they were given |
| `MCDocumentSession`, `MCEncryptedSession`, `MCNativeSession`, `MCSharing`, `MCServer` | values for TLC | `MCServer` puts fourteen modules together |
| `*_proofs` | theorems about the module of that name; `Presence_proofs` about `MessageProtocol`, `Participants`, `SystemMessages` and `Comments`, `Users_proofs` about `EncryptionKeys`, `Envelopes`, `Bibliography` and `Accounts`, `Server_proofs` about `Overview`, `Routing`, `Revisions`, `DirectEditing`, `Templates` and `Library` | |

In every module a step is what a program does between two places where something
else may come in: between two awaits of a Python consumer, two scopes of a lock of
the native service, two statements of a view. Where a view opens a transaction, it
is one step.

### Sessions

* *Subscribing* is `ReadDoc` (the database answered `init_access`), then either
  `JoinSession`, or `OpenSession`, with `StartInit` and `WriteInit` between when
  the row is blank and is filled from the template, then `Reconcile` or
  `Unfixable` for `check_version`.
* *A diff* is `ReceiveDiff` (the rights are read again), then `DropDiff`,
  `RefuseDiff` or `AcceptDiff`; a diff with a title or images suspends once more
  (`AfterSidecar`); every `SaveInterval` versions the handler saves before it
  confirms and announces.
* *A save* (`SaveThen`, `StartSave`, `WriteRow`, `FinishSave`) differs between the
  engines as the code does. The Rust engine collects all values at once, but
  the list of diffs is the live one until it is replaced (`Aliased`). The Python
  engine serialises the content at once and reads the rest in the thread.
* *Leaving* is `Disconnect`; the last one out saves and then takes apart the
  session that is registered by then (`Cleanup`). `Fail` is a handler that raises:
  `disconnect` never runs and its participant remains.
* `Crash` kills the process, `Shutdown` ends it with `save_all_docs`.

Abstractions. The text is the sequence of the diffs applied to it; whether a
step applies is a free choice between `AcceptDiff` and `RefuseDiff`. Titles,
comments, bibliography and images appear only as the extra suspension they cost.
Participants are identified with connections. Rights are a free choice between
looking at a diff and dropping it (`Sharing` says which). Sending is assumed not to suspend, as under
Daphne. `reset_collaboration` sends the other connections a refetch, whose saves
repeat the sender's and are not modelled apart. The document is neither deleted
nor encrypted.

`Comments` leaves the steps of the text out, but for whether a diff has any and whether they are only marks
of comments, as who comments or reviews is heard only then (`only_comments`). Of a comment it keeps its author, to whom
it is assigned and who has answered. `Receive` is the editor's; `Discard`, `AcceptDiff` and `AnswerOther`
are `handle_diff` as far as it goes without suspending; `TitleSaved` and `Tell` are what comes after an
await. A confirmation carries the request id (`rid`) of the diff it confirms; the model's carries that diff's updates, and
the editor passes over one that is not of the diff it waits for. The three lock
scopes of the native service are `Native_Compare`, `Native_Push` and `Tell`. A
behaviour is not followed any further once it is `disturbed`: an update raised and took the
rest of its diff with it, a title was awaited between raising the version and
updating the comments, or the native service let go of its lock in between. A reader that only
reviews is not told live of other people's replies and reassignments of its comments. A diff
with updates of comments alone, such as a reply, that comes from who only comments or reviews is dropped without an answer, by both
services, and so is what a downgraded reader sent while it could write (`consumers.py` 752, 806, `connection.rs` 705): its
sender waits (`unheard`) until the connection breaks down or the page is loaded anew.

`Participants`: Python makes the list (`List`) and sends it when the last picture is there
(`SendList`), to whoever is in the session by then; the native service does both
under one lock (`Native_List`).

### Protocol

`MessageProtocol` is one connection of either `backend`. A Python handler may be suspended
after each message it sends, a native one lets go of its lock after each; the
handlers of other connections then send in between (`Push`), this connection's own
frames wait. The server gives up when a client lacks more than the
ring holds; then `gaveUp` is set and the properties about delivery no longer
speak, as the client is to fetch the document again. They are also silent about a
behaviour in which another handler's message took a number in the middle of a
resend (`overtaken`), which neither service prevents. In Python `last_ten[0 - 0:]` is the whole
ring: a client that lacks nothing is sent the ring again. The native service counts in
unsigned numbers and sends nothing then.

### Rights

A request of `Sharing` is its SQL statements: `BeginSave`, `ReadItem`, `WriteItem` and so on are
`save_access_rights`; `BeginUnlink`, `Unlink` are `delete_contacts`; `BeginAccept`, `Compare`,
`Merge`, `DropRight`, `DropInvite`, `Give` are `UserInvite.apply`; `Tell` is
`notify_access_change`. A connection is `OpenPerson` or `OpenGuest`, `Enter` (it joins the
channel group), `Refresh` (rights are read) and then `Handle`, `Ignore`, `Deny` or `Permit`. Three
of the seven levels of rights are kept.
What the model takes over from the code as it is: `holder_type_id_matches_user` is a decorated view
called as a helper and raises after the right was deleted (`views.py` 433), so that the request ends
there and nobody is told; for an encrypted document, which knows the rights to write and to read only, changing a
user's right raises after the row was saved (`BreakOff`), as `holder` is bound only where a row is created (`views.py` 470-477, 508),
unless an earlier item has left a user in it (`usable`); the expiry of a token is announced to nobody; a
revoked or expired token keeps its row, and a new one of the same level is refused;
a process that ends in the middle of `apply` loses the right. Such
connections are in `unheard`, and the properties make an exception for them.

### Encryption

In `EncryptedSession` ciphertext is what it encrypts and under which epoch; an epoch
stands for a salt with its iterations. `AcceptDiff`, `AcceptSnapshot` and
`RequestRekey` are the handlers up to their first await; `WriteRow` and
`FinishSave` are a save; `RefuseRekey`, `ApplyRekey`, `CommitRekey` and `FailRekey` are
the function `_apply_rekey`, which runs in the database thread on the instance the
event loop uses. `Restart` opens the next session from the row. Connections
coming and going are left to `DocumentSession`: they change no field of the document,
except that the last one out saves (`Save`).

`Envelopes` adds what comes over REST: an envelope is fetched (`FetchKey`), looked up
(`SaveKey`, `UpgradeKey`) and written (`WriteKey`), rights come and go, and the owner
changes the key for the holders it was told of (`ListHolders`, `CheckRekey`, `ApplyRekey`). As
nothing compares epochs, an envelope made from an old key may take the place of a new one,
so that `EnvelopesCurrent` is claimed for `calm` behaviours only. The envelope of somebody whose right was revoked stays
(`views.py` 431-433) and, since a rekey must cover all holders with a right and no
others, keeps the owner from changing the key.

In `EncryptionKeys` a call of `save_encryption_key` is `Save`, which reads the record and decides, and
`Create`, `Replace` or `Conflict`. Two devices that create keys at the same time are both told
that theirs were stored.

Both session modules take what the database thread does to the instance between
two calls to the database as one step, and so what a handler does between two
awaits. In Python the two can interleave field by field; such torn reads are not modelled.

### Native service

`NativeSession` has a step per lock scope and per answer of the database: `LoadRow`, `OpenOrJoin`,
`Initialise`, `AddParticipant`, `CopyContext`, `CheckVersion`/`CatchUp` subscribe; `ReceiveDiff`,
`FixBehind`, `ApplySteps`, `PushDiff`, `Confirm`, `LookIfDue`, `SaveDue` handle a diff; `StartSave`,
`WriteRow`, `FailWrite`, `MarkSaved` are a save that is awaited, `Background_*` one that is not;
`Leave` and `RemoveSession` are the end of a connection; `StartRefresh` and `ApplyRefresh` are
`refresh_session_rights`; `Flush` is the stop of the server. A re-read that puts a participant out between
`AddParticipant` and `CopyContext` makes its task die with the lock (`Panic`, `connection.rs` 306): the session is
`poisoned`, so that every task that takes its lock dies too, its participants and the registry stay as they are, and
`rights_refresher` ends (`RefresherPanics`); nothing of the session is saved any more. Writes of different tasks reach the
database in any order, and may fail when more than one client is there (when one client is alone
failures are left out, since `Durable` could not hold with them). A refresh reads the registered
session and the rows of rights in one step. A connection that is told to close may handle one
more message, and a right that is lowered but not withdrawn is not enforced, as the connection's own copy
of its rights is never read again.

### The rest of the server

* `SystemMessages`: `Connect` enters the list, `Created` the row; `Leave` and `Remove` are the
  other way round. `Pass` is one turn of the loop over the list of clients: a departure
  moves the next client before the loop. `Stop` removes every second row, as the code does; `Crash`
  none. Several requests send at a time: the connection that one opens to a server (`SendTo`) is on the server's list
  before its message is there, and when another loop has sent to it before (`Messaged`), the message has the wrong
  number and is lost for that server (`Reject`), else its own loop begins (`Hear`).
* `Library`: the chapters of a book are cleared and added one by one (`StoreBook`,
  `ClearChapters`, `AddChapter`, `ChapterRefused`), and after each the whole row of the book is
  saved again as the request read it (`StoreAgain`), over a cover another one stored; an image is looked at (`CheckImage`) and then
  removed (`RemoveImage`) with all that refers to it, the whole book if it is its cover. A
  declined or accepted invitation may leave a row about the book behind; a right for the book's owner
  raises a `TypeError` (`book/views.py` 273); saving a book that is just being deleted makes it
  again; a cover that is replaced is not looked at.
* `DirectEditing`: every view reads the row, and writes all of it back later. An import
  replaces a text without raising the version, `save_doc` of the staff writes the text as it was
  when listed; a behaviour in which one request's row was written over another's, or with an import over
  a text, is `crossed` and not judged any more. The consumers do not look at `EDITOR_SAVE_MODE`, so
  that both ways of editing can meet; that is not modelled.
* `Templates`: `CreateDoc`, `ImportCreate` and `InsertDocument` make a document; `DeleteDocument`
  and `CommitDelete` delete it, with its template if it was the last one; `DeleteTemplate`,
  `RemoveTemplate` and `DeleteStyle`, `RemoveStyle` look first and act later. When two requests cross at a
  template (`collided`), documents made since the look go with the template, two last deletions leave it,
  two deletions of styles leave none, and a template that was deleted is saved again.
* `Revisions`: `UploadRevision`, `StoreFile`, `NameFile` save the row, the file and the
  row again; `UpdateRevision` deletes the file first, and when it fails before the row is saved the row names a file
  that is gone for good (`ruined`); `ReadNames`, `Scan`, `MoveAside`, `ListQuarantine`,
  `DeleteQuarantine` are the command. A file that is being uploaded is put aside by it; an upload that
  crosses a deletion makes the row again.
* `Accounts`: `SetField` reads the row of the user and `WriteUser` writes all of it; the actions between two
  statements are named for what the second does. Requests that crossed on the same topic, and
  those that were broken off, are `unsettled`: a whole row written back loses other changes, password and
  address included, and brings a deleted account back; two set-ups leave two devices; `delete_email`
  next to `primary_email` leaves no primary address; a code for a device that was deleted meanwhile inserts it again.
* `Bibliography`: `BibList` compares the second of the last change and the number of entries,
  `SendEntries` reads and sends the entries. `loose` are the devices whose copy was read next to a
  change or before one in the same second. Two devices that save the same new entry make it
  twice, a stale list of categories deletes others' categories, and an entry that is deleted while it
  is saved comes back.
* `Overview`: `ListShared`, `LookUpRight`, `LookUpRevisions` are `documents_list` and the list of books,
  `ReadTexts`, `FillText`, `LookUpComments` are `get_documentlist_extra`, `GiveRight`, `MakeRow`, `ChangeRow`,
  `MailShare`, `SaveRow` are `save_access_rights` (one transaction for a book), `Move` and `StorePath` the two
  views `move`. `overran` marks a row that was stored whole over a change made since it was read: a
  right that was withdrawn or lowered comes back when its holder moves the document, and a blank document that was deleted
  comes back when it is filled. One whose right is taken away between two lookups is given all comments,
  whatever his right was (`filter_comments_dict` of nothing); one who is given a right to a book gets no
  mail, as the id of the holder, not the type, is compared with "user" (`book/views.py` 554).
* `Routing`: `StartRunner` to `StopWorkers` are `inner_run` line by line; `Abandon` is its end without the
  `finally`, since Django's reloader runs it in a thread of its own. `AskBase` is `get_ws_base` and the same in
  `validate_share_token`; `OpenSocket` is `connect` with `check_server`, which can only redirect if the ASGI server
  tells the port (`seesPort`; not all do, `consumers.py` 164-167). A port that is not in the list any more
  keeps a worker that was left behind, as `_free_ports` looks at the new list only (`dropped`).

`MCServer` puts the fourteen modules together that have no rows in common with each other. As steps of
different parts commute, each behaviour is one of a single part, chosen in the initial state; the others rest. That keeps every
behaviour of each part and none of the product of their states.

## 3. Runs

| Run | Question | Bounds |
|---|---|---|
| `session_team` | Do several authors share one session, are they caught up exactly, does the stored text only grow, is the loss at a crash bounded? | 3 connections, 3 diffs, 1 crash, history of 2, save every 2; Rust engine, row not blank, no sidecars, the last participant stays |
| `session_open` | Does the registry behave while connections open, share and leave a blank document, and do empty sessions go? | 3 connections, 1 diff, Python engine, blank row, sidecars, weak fairness |
| `session_solo` | Is what one author writes stored, over connections, shutdowns and a crash? Does the document implement `DurableLog`? | 3 connections one after the other, 4 diffs, 1 crash, Python engine, blank row, sidecars |
| `session_lost_update` | `last_saved_version` is what is stored: violated | 2 connections |
| `session_removed` | Only sessions without participants are taken apart: violated | 2 connections |
| `protocol_gap` | A gap in the client's numbers does not end the connection: violated | ring of 2, 3 server messages |
| `e2ee` | Can an encrypted document always be put together, in one epoch, by every holder? | 3 connections (one of the owner), 2 users, history of 2, 4 diffs, 2 rekeys, 1 restart |
| `e2ee_race` | The same while others write during a rekey: violated | 2 connections, 1 rekey |
| `e2ee_failed_rekey` | The envelopes fit though a rekey may fail at its end: violated | 2 connections, 4 diffs, 1 rekey, no restart, failures anywhere |
| `native` | Is what is registered served, catching up exact, the row whole and stored, and does who loses the right leave, whatever lock scopes and database answers interleave? | an author and a reader, history of 1, save every 2, 2 sessions; four scenarios that each raise one bound: alone with 3 diffs, 3 connections and 1 change of rights; together with 2 diffs, with 1 diff and 1 change, or with 3 connections and 1 change |
| `sharing` | Is a connection's copy of its rights the truth or a notice on its way, is no change handled on a right that was gone, does who loses the right leave, is no right lost on the way from an invitation? | 1 person, 1 guest, 1 link; 3 requests in turn, 2 at once, 2 frames with a refresh interval, or 2 requests at once for an encrypted document |
| `server` | One question per part, see below | two actors each |

The parts of `server`, with their properties and bounds:

| Part | Properties | Bounds |
|---|---|---|
| protocol | `NothingSkipped`, `HandledInFull` | ring of 2, 3 server and 2 client messages, 2 faults (frames lost, messages repeated), 2 frames in flight |
| system | `PresenceFollows`, `MessageArrives` | 2 servers, 2 browsers, 1 native service; 3 connections and stops in all; or 1 connection, no stop, nobody silent and a second message that comes while the first is under way |
| library | `BookReaders`, `ImagesFollowUse` | 2 documents of 2 owners, 2 images, 1 book; 3 requests in turn or 2 at once |
| direct | `EditorsAgree` | 2 editors, history of 1, 4 saves |
| keys | `ReplacedWereSeen` | 2 devices, 4 saves, 1 reset |
| comments | `CommentsFollow` | 2 readers with each mix of rights, 2 comments, history of 1, 2 diffs |
| participants | `ListsCurrent` | 3 connections, one that may not communicate, 4 lists |
| envelopes | `EnvelopesCurrent` | the owner and 2 partners, 1 key change, 1 new row |
| templates | `TemplatesServe` | 2 workers, 2 authors, 3 requests; 2 templates, 2 documents, 3 styles |
| revisions | `RevisionsKept` | 2 workers and the command, 3 requests, 1 old revision, 2 in all |
| accounts | `AccountKept` | 2 workers, 2 addresses, 3 requests; with and without two-factor login |
| bibliography | `BibliographyFollows` | 2 devices, 2 entries, 2 categories, 3 seconds, 3 requests |
| overview | `ToldWasSo`, `RowsStand` | 2 workers, 3 requests, 3 of the rights (one of each kind as to comments and revisions), 2 versions of the text |
| routing | `OneServer` | 2 browsers, 2 ports on 1 or 2 machines, 3 lists of ports that grow and shrink, 1 start on one machine, 2 on two without the last list (`FewStarts`) |

`TypesOK` is the type invariant of the part at work. Those of the sessions, encrypted documents and the native service are not
checked by any run, as they are proved, as is `TypesOK` (section 4).

Why these bounds are enough. In the sessions three connections are what the races need: one
whose save is in flight, one that changes the session meanwhile, one that
arrives. A history of 2 is exceeded by the third diff, so trimming and clients
too far behind occur; with an interval of 2 a save falls between diffs. In
`session_open` the races are those of the registry, and one diff is enough to make
a save necessary. In `e2ee` four diffs with a history of two are trimmed twice, and the second rekey
meets diffs, envelopes and saves of the first. In `native` a history of 1 is outrun by the second
diff, and one change of rights meets both re-reads that are under way at a time only if the right was
withdrawn between their reads. In the protocol a ring of 2 (10 in the code) is outrun by the third
message, and two losses make a resend of a resend happen; `MaxQueue` bounds the frames in flight when one is
added. In the views two requests are what a race needs, and the third finds what they left behind; a part
has two rows of each kind where one has to be told from another. `ConnectsAndStops` and
`Faults` in `MCServer` bound two kinds of events together, since what matters is their order, and `FewConnects` lets
the second message take the place of two connections. The library
starts with one image and a discussion with the first comment at most, which loses nothing, as images and comments are alike.

What each property says is written above it in the modules. Some restrictions are
deliberate and matter for reading the results:

* `OneSharedSession`, `LossBounded` and `TextNeverRegresses` are claimed *while
  the last participant stays* and the row is not blank. Without that, a
  connection can open a second session next to the one that is being saved
  (`consumers.py` 244, 265, 1289). `LossBounded` also needs diffs without
  sidecars: a handler that suspends between raising the version and testing it
  against the interval may find a version that another diff has raised further,
  and the save is missed. `TextNeverRegresses` is about the Rust engine, whose
  saves carry the content of the moment they were submitted.
* `Durable`, `RowIsAVersion`, `SavedIsStored`, `OnlyEmptySessionsRemoved` and
  `LogSpec` are claimed for *one connection at a time*. With two they fail, and the
  first two findings below show how.
* `e2ee` assumes that a client sends the snapshot it is asked for before the list of
  diffs is trimmed (`PromptSnapshots`: the server asks one client and does not
  insist, `consumers.py` 866-871, 1237), that nobody writes while a rekey is on its
  way (`RekeyAlone`), and that the database refuses a rekey, if at all, before the
  instance was changed (`FailPlaces`). The code enforces none of the three: without
  the second and the third, findings 4 and 5 show what happens, and without the
  first the diffs between the snapshot and the list are gone. `OneEpoch` needs none
  of them, as its theorem shows.
* In `native`, `Durable` is for one client alone, `CaughtUp` for one writer; `RegisteredIsServed` and `RevokedLeaves`
  speak of sessions whose lock no task died with; what happens to the others is described below the findings.
* `MessageArrives` does not speak of those the code passes over, recorded in `missed` by the very step that does;
  of a message that is rejected, see below the findings.
* In the views, what is excluded is that two requests were at work on the same thing (`crossed`, `collided`,
  `tangled`, `unsettled`, `loose`, `overran`, not `calm`), each recorded by the very step that crosses; section 2 says what the code
  does then. Of revisions only this is left out: that one whose file an update has deleted and whose row still names it is asked for,
  deleted or updated again, and that the command runs next to a request that writes a file. What is left is still the interleaving of requests on different things, of requests with the
  cleaning command, failures and stops, and long sequences.

Deadlock is checked in the encrypted runs. In the others it is not, as these
systems do stop: every connection of an instance can be closed, and every message
delivered.

Fairness. `session_open`: weak fairness of `Progress(c)` per connection, the
steps the event loop and the database thread take by themselves. asyncio resumes
every handler whose awaited call is done and the thread serves its queue in
order. `sharing`: weak fairness of each request under way (`RequestStep`), of each answer of the database to a
connection (`Answer`) and of the consumer's queue of channel messages (`Notice`). `native`: weak fairness of
each task that does not wait for its client (`Handler`), of a connection that must leave (`MustLeave`) and of
the re-reading of rights (`Recheck`), which a timer causes as long as its task lives. Nothing is assumed of
users: nobody has to connect, write or leave.

The operators marked *fault* in the modules are what a slip in the code would make of the definition that
follows them; no specification uses them. Each property was seen to fail with one of them.

### Findings

1. `session_lost_update`: `save_document_async` (`consumers.py` 1508-1509) marks the
   version *after* the await as saved. A diff accepted meanwhile is skipped by the
   next save, unless another diff follows, though `document_store.py` 80-82
   promises to skip only what was saved.
2. `session_removed`: `disconnect` looks the session up again after its save
   (`consumers.py` 1291-1306) and takes apart the one another connection has opened
   meanwhile.
3. `protocol_gap`: the request for lost client messages uses `send_json`
   (`base_consumer.py` 198), which the base class does not have; the consumer ends
   without `disconnect` and its participant stays. The native service does send it.
4. `e2ee_race`: a rekey is checked on the event loop and applied later in the
   database thread (`consumers.py` 1139-1146, 1188-1199). A diff accepted in between
   is counted by `version` and dropped with the old diffs: the document's snapshot
   and diffs no longer reach its version, against `models.py` 131-134.
5. `e2ee_failed_rekey`: `_apply_rekey` assigns the new salt to the session's instance
   before it writes the envelopes. If the database refuses, the row is rolled back and
   the instance is not; the next save stores the new epoch without the envelopes it
   must come with (`consumers.py` 1102-1104).
Two more disagreements are steps of passing runs, and what their properties leave out:

* `Reject` in `SystemMessages`: the connection that brings a message to a server is on that server's list of clients
  (`base/consumers.py` 73) before the message is there. When the loop of another message comes to it first, the
  message, which is numbered as the first, is rejected (`base_consumer.py` 202-215) and reaches nobody of that server,
  though `base/views.py` 373-374 speaks of all clients. `missed` records for whom it was.
* `Panic` in `NativeSession`: a re-read of the rights may remove a participant before its task has copied its context; the
  index fails while the lock is held (`connection.rs` 305-306), the lock stays poisoned (`poisoned`), `rights_refresher`
  dies on it (`relay.rs` 142, `watching`), and whoever loses the right later stays connected, against `relay.rs` 129-131.

## 4. Proofs

All are checked by TLAPS, from the named assumptions of the modules only.

`DocumentSession_proofs`, for every finite set of connections,
every history length and save interval, either engine and every environment flag:

* `TypeCorrect`: `Spec => []TypeOK`.
* `RegisteredIsServedCorrect`: `Spec => []RegisteredIsServed`.
* `CatchUpExactCorrect`: `Spec => []CatchUpExact`.

The argument has three layers, each inductive relative to the one before.
`TypeInv` is `TypeOK` with `HandlersPlaced`: `TypeOK` alone is not inductive, since a
handler in a session must have one (`ref`, `saving[c].session`) before a step may
index `sessions` with it. `Served` is `RegisteredIsServed` with `LiveRegistry`: the
session that is registered is never one that was taken apart; otherwise a handler
could raise in the middle of its save and leave an empty session behind.
`HistoryKept` says of every session that, counted from the newest, the stored
diffs are for version - 1, version - 2 and so on, as far back as the session has
seen them come in; appending keeps it because a diff is accepted for the current
version only, trimming because the count starts at the end. `CatchUpExact` follows
by arithmetic on the tail. It speaks of the versions since the session was opened:
a row written by the Python engine may hold diffs and content of different
moments (see `RowIsAVersion`), so older diffs are not vouched for.

What several authors may rely on needs what the run `session_team` assumes too: the last
participant stays (`LastStays`) and the row is not blank. For any number of connections:

* `OneSharedSessionCorrect`: `Spec => []OneSharedSession`.
* `TextNeverRegressesCorrect`: `Spec => TextNeverRegresses`, an action property.
* `LossBoundedCorrect`: `Spec => []LossBounded`, if also no diff has a sidecar (`~Sidecars`).

`Team` is `OneSharedSession` with `Attended`, the session has a participant, so that no save ends in taking it
apart, `QueueWaits`, the database thread's queue holds each handler that waits and none twice, and
`Initialised`, since a row with content is never filled from the template. `Grows` orders the texts: row, the contents
submitted in the order of the queue, and live text, each continues the one before; it is what makes the head of
the queue safe to write. `Due` says that no version is due for a save that is neither stored nor in the queue; a handler
between raising the version and testing it would break that, hence the condition on sidecars.

What one author may rely on holds for one connection at a time (`MaxLive = 1`), with blank rows, sidecars,
either engine, and crashes anywhere:

* `DurableCorrect`: `Spec => []Durable`.
* `RowIsAVersionCorrect`: `Spec => []RowIsAVersion`.
* `LogCorrect`: `Spec => LogSpec`. Initial states of a session are initial states of `DurableLog` and each step is one of
  the log or a stutter.

`Solo` relates row, session and the one handler at work: without a session every confirmed diff is in the row (`StoredText`), with one
it is in the live text, which goes on from the stored one and is that one unless marked as changed (`LiveText`); a
connection that has read the row and not yet joined holds the row as it is (`RowRead`), and what the database thread
carries is the text of the session (`Carrying`).

Lemmas state once what starting a save, resuming after one, and trimming do to
the session and to the handlers, and every action that may save cites them. Each
strengthening was checked by TLC first.

`NativeSession_proofs`, for every finite set of connections, number of sessions, history length and save interval:

* `TypeCorrect`: `Spec => []TypeOK`.
* `RegisteredIsServedCorrect`: `Spec => []RegisteredIsServed`.
* `CaughtUpCorrect`: `OneWriter /\ Spec => []CaughtUp`.
* `RowReachesVersionCorrect`: `Spec => []RowReachesVersion`.
* `DurableCorrect`: `Spec => []Durable`. The property itself is about scenarios with one author at a time.

`TypeInv` adds to the types where each task is: who is in a session whose lock nobody died with works on it and is not about to
go (`Members`), no save of a session that was not made is pending (`Unmade`); with that, `Served` is inductive by itself. `LogsKept` is the counterpart of `HistoryKept`, for the session, the row and every copy a task holds
(`Consecutive`); it needs that whoever is about to append has compared with the version of now (`Current`), and two writers may
compare between two scopes of the lock before either appends: `OneWriter` excludes just that. `TextsReach` counts those who have
changed the text and not yet the version (`Ahead`). `SoloKept` follows the one task through applying, counting and
saving, and says how far the row may lag at each place (`Working`); while a background save is under way the task
changes nothing, and what is written is what the session has (`Pausing`); with nobody there the row has all (`Resting`).
A task that is alone can only die while it enters (`SoloPanic`), when nothing is unsaved, so a session that it leaves behind has nothing
the row has not, and whoever comes to it dies at the next place.

`EncryptedSession_proofs`, for every finite set of connections and users, any owners, holders and bounds,
and every history length:

* `TypeCorrect`: `Spec => []TypeOK`, the limit on the list of diffs included.
* `OneEpochCorrect`: `Spec => []OneEpoch`, whatever the environment does.
* `EnvelopesFitCorrect`: `Spec => []EnvelopesFit`, if a rekey fails only before the
  instance was changed. Finding 5 is the counterexample without that.
* `DocumentReadableCorrect`: `Spec => []DocumentReadable`, if a snapshot comes before the diffs it makes needless are
  trimmed (`PromptSnapshots`) and nobody writes during a rekey (`RekeyAlone`). The server sees to neither: finding 4
  is the counterexample without the second.

`Sound` adds to the types that the diffs of instance, row and open transaction are
of the epoch of each; `CommitsServed` adds that only the handler at the head of the
database thread's queue can be committing, without which its end would remove
another from the queue. `Keyed` relates the three copies of the epoch: while a rekey
is being committed, instance and transaction have its epoch and its envelopes are
enough; otherwise instance and row agree. `EnvelopesFit` alone is not inductive, as
a save could then write any epoch. `Legible` says that instance, row and a transaction under way can be read and that a
rekey between check and assignments is still for the version of now. A document's diffs are
named there by their places counted from the end of the list (`GoesOn`), which trimming keeps
(`TrimmedPlaces`); one more diff leaves the document readable when the snapshot is near enough for the
list to reach it (`ReadableExtended`), for every history length.

`Users_proofs`, about `EncryptionKeys`, for every set of devices and any number of saves and resets:

* `KeysTypeCorrect`: `KeysSpec => []KeysTypeOK`.
* `ReplacedWereSeenCorrect`: `KeysSpec => []ReplacedWereSeen`.

That nobody replaced keys unseen says nothing of the next call. `KeysInv` adds `NumberIsNew`, the number of a save under
way names no row, key or call but its own, `KeysBrought`, a call brings new keys or those its device knows,
and `VersionKnown`: a device that knows the record's public key knows a version of this record, none later than its own, and
in the record's version the very contents. This is where the comparison of public keys and that of
versions work together: each alone would let a record through that only looks like the one that was seen.

and about `Envelopes`, for every set of partners and any bounds:

* `EnvelopesCurrentCorrect`: `EnvelopesSpec => []EnvelopesCurrent`.
* `EnvelopesTypeCorrect`: `EnvelopesSpec => []EnvelopesTypeOK`, with rekeys next to anything.

It speaks of `calm` behaviours, in which a rekey has the server to itself from its comparison to the end of its
transaction and browsers load the new key with the document; without that the property fails, see section 2. The invariant relates the four places a key may be in while all is calm: an envelope, a browser, a request and a
rekey under way; whatever a request is about to write was taken from a browser that has the present key.

and about `Bibliography`, for any number of devices, entries and requests:

* `BibliographyFollowsCorrect`: `BibliographySpec => []BibliographyFollows`.
* `BibliographyTypeCorrect`: `BibliographySpec => []BibliographyTypeOK`.

A device goes by two numbers, the time of the last change it was told of and the count of its entries. `BibliographyInv` says of a device whose copy is not
`loose` that its entries are those it read, as many as it counts, and that every entry no newer than it was told of is among them (`CopyFollows`); so one that has
the last time and the count has them all. What is written has the present second, and a device that was told of that very second is loose from
then on. `LastModified` is a maximum; that there is one is proved from the least elements of sets of naturals (`WFMin` of the library).

and about `Accounts`, for any number of workers, requests and addresses:

* `AccountKeptCorrect`: `AccountsSpec => []AccountKept`.
* `AccountsTypeCorrect`: `AccountsSpec => []AccountsTypeOK`.

Each request is at work on some parts of the account, row, mail, devices or avatar, and on a part that is not `unsettled` it is alone (`Apart`) and the user is
there (`Gone`). So what it has read is still so when it writes (`RowKept`, `MailKept`, `DevicesKept`, `AvatarKept`): the row is as it was set, one address is primary but
while `set_as_primary` moves the mark, the device a code is asked for counts, and only one device waits. Sessions need more: a new password ends
them although a login under way may still open one with the old row. `FreshPassword` says that a password yet to be written is in no row, session or request, and
`ShutOutKept` that no ended session has the password last set; both hold whatever requests cross.

`Presence_proofs`, about `Participants`, for every set of connections and speakers:

* `ListsCurrentCorrect`: `ParticipantsSpec => []ListsCurrent`.
* `ParticipantsTypeCorrect`: `ParticipantsSpec => []ParticipantsTypeOK`.

`LastListIsTrue` looks at the lists under way: while somebody is there to be told, the last list that was made names those
present, and it is under way or was sent; once sent, they have it, unless an older one followed. `NumbersDiffer` keeps
the lists under way apart, and from the one that was sent.

and about `SystemMessages`, for every set of servers and clients, with a server for each client:

* `PresenceFollowsCorrect`: `SystemSpec => []PresenceFollows`.
* `MessageArrivesCorrect`: `SystemSpec => []MessageArrives`.
* `SystemTypeCorrect`: `SystemSpec => []SystemTypeOK`.

The invariant `PresenceInv` adds what the rows depend on. `ListsHold`: a server's list has only its own clients, and all
that are connected, so that what `remove_all_presences` takes away are rows of the server that stops. `RowsNumbered`: a row is
of no later connection than its owner's last, and an abandoned one is of a connection that is over, so that a browser that comes
again finds no row of its new connection. The type of the lists needs that a loop has its relay connection in
the list until it ends, which is in `SystemDomains`; `CutOut` says what taking an entry out of a list keeps, `CutPlaces` where what
it keeps is then. `MessageInv` adds `OnItsWay`: whom the message is owed to has it, or his server is yet to be told (`Expected`), or its loop
is yet to come to him (`Coming`). A client that leaves moves those behind it one place forward, under a loop that counts places; the
one who comes to stand where the loop has been is `PassedOver`, and the proof shows that there is never another. All of it is
said of each request by itself: what others send touches it only through the list they share and the number of its connections.

and about `Comments`, for any readers, rights and comments, any number of diffs, and any number of them kept:

* `CommentsFollowCorrect`: `CommentsInit /\ [][CommentsNext]_commentVars => []CommentsFollow`.
* `CommentsTypeCorrect`: the same `=> []CommentsTypeOK`.

The session keeps only its last diffs, and the messages on their way are older still, so the invariant `CommentsInv` speaks of a
history that no variable holds: there are (`\E`) an author of every comment id, the diff accepted at every version with its sender, and the
comments at every version (`History`), such that the session and what it keeps are the end of that history (`Current`, `Kept`), each reader's
copy is what it may see of some version in it (`CopyFits`), a message on its way tells of one of its diffs (`MessageFits`), a confirmation of the
reader's own and everything that is not caught up with of somebody else's, and whoever waits has the answer on its way or is one that only comments
or reviews and whose diff was dropped (`AnswerComes`). A step
either leaves the history or adds a version to it (`Later`, `PushHistory`); what is true of the history stays true. The authors are there because a
reviewer's copy has less than the session's: an update it is not sent is one of a comment that never was its own (`VisibleAlike`), and a comment id
has one author for good. A diff has two updates at most, as editors make them here, so what `Native_Updated` and the filter make of a diff is
shown for none, one and two (`Runs`, `Visible`) and needs no induction. TLC checked the invariant with the history as variables, of two diffs in full and of three as far as 2.8 million states. The proof changed the
model: a confirmation was taken for one of whatever the editor waited for, where the code's carries the request id. The types hold even
after the step that disturbs a behaviour: what is left of the comments when an update raises half-way (`UpdatedByFits`) is whole.

and about `MessageProtocol`, for every length of the ring and any number of messages, losses and repetitions:

* `ProtocolTypeCorrect`: `ProtocolSpec => []ProtocolTypeOK`.
* `NothingSkippedCorrect`: `ProtocolSpec => []NothingSkipped`.
* `HandledInFullCorrect`: `ProtocolSpec => []HandledInFull`.

Neither property is inductive, as both speak of what was received and are kept by what may still be asked for. `ProtocolInv` is about
everything under way while nobody gave up and no handler was overtaken: a frame carries the message of its number
(`BodyIsNumber`), what a suspended handler has yet to send goes on after the last number (`PendingFollows`), the ring ends
with the messages last numbered, as far back as the client or a request under way can ask (`RingFollows`), and who asks lacks
something (`RequestsLack`). A frame is handled only by a server that has sent all it numbered (`AnswersComplete`).

`Sharing_proofs`, for any people, guests, links, connections and requests:

* `SharingTypesCorrect`: `Spec => []Types`.
* `UpToDateCorrect`: `Spec => []UpToDate`.
* `ChangesAuthorizedCorrect`: `Spec => ChangesAuthorized`, an action property.
* `GrantKeptCorrect`: `Spec => []GrantKept`.

`Settled` carries the first three. A request that has changed a row owes a notice until it is sent (`Owes`); a connection's copy is right, or a
notice is owed, on its way, or was never to come (`ToldOf`), and the right a frame is checked against was in force at some
moment while the frame waited. `GrantKept` speaks of requests that come one at a time: then what a request has read of the rows is
still so when it writes (`Fits`), an invitation that holds a right has its row (`Backed`), and what was granted is in a row or in the hands of
the request that moves it (`Kept`). The proof showed that the arms of a CASE in `Compare`
overlapped, for an invitation without a right to a person without one; TLC takes the first arm that applies and so never complained.
It is an IF now.

`Server_proofs`, about `Overview`, for any number of processes, requests and levels of rights:

* `ToldWasSoCorrect`: `OverviewSpec => []ToldWasSo`.
* `RowsStandCorrect`: `OverviewSpec => []RowsStand`.
* `OverviewTypeCorrect`: `OverviewSpec => []OverviewTypeOK`.

`Seen` says that whatever a request under way goes by, rows it has listed or the right it has looked up, is among the rights Mate had since
it began, and so is the right of now. `Stands` follows the requests that change rows: while none has stored a whole row over a change, the
row and the text are those last given and stored, and the last mail named the right Mate has, or a request at work will change that (`MailFollows`),
since what is about to be stored was told before (`SavingWasMailed`).

and about `Routing`, for any machines, ports and browsers, any lists of ports and any number of starts:

* `OneServerCorrect`: `RoutingSpec => []OneServer`.
* `RoutingTypeCorrect`: `RoutingSpec => []RoutingTypeOK`.

`RoutingInv` relates the ages of the settings that the processes have read: a worker has read what its machine has or had, and a runserver's own
worker no less than the runserver (`WorkersRead`); while no machine loses a port, nobody serves one that is not in the list of now
(`WithinList`); who is connected is at a worker that would not send him away (`Guided`). So, when every runserver serves one list, a connection's
worker is the runserver's own on a port of that list and has read that list, and only one place is left to be at. Maintenance pages give way to workers by
freeing the ports; that no connection is lost there from under a browser needs `PagesServed`: such a port has a page and no worker.

and about `Revisions`, for any number of requests, revisions, old files and runs of the command:

* `RevisionsKeptCorrect`: `RevisionsSpec => []RevisionsKept`.
* `RevisionsTypeCorrect`: `RevisionsSpec => []RevisionsTypeOK`.

The property holds while no file was written next to the command and nothing came to a revision whose file an update has deleted and whose row still
names it (`tangled`); so does the invariant. A request that
replaces or removes files has their revisions for itself (`Alone`) and finds their rows and files as it left them between its statements (`RowsLeft`); whoever still holds a list
of names holds all that rows name now (`CleanerKnows`), so the command takes nothing that is needed. `NamedThere` is the safety of the
files: a named file is missing only while an update is between deleting it and saving the row, or when it failed there (`ruined`). `NothingLeft` says of each file to whom it belongs, a row, a request that will name it or one that will remove it, unless a request failed.
`StoreFile` takes the first free number as a member of a range, so the proof does not depend on there being one.

and about `DirectEditing`, for any number of editors and saves, and diffs kept for any number of versions:

* `EditorsAgreeCorrect`: `DirectSpec => []EditorsAgree`.
* `DirectTypeCorrect`: `DirectSpec => []DirectTypeOK`.

An editor's text is the row's but for the last edits, one for each version it lacks at most (`InReach`), as long as so many diffs are kept; cutting the
list keeps that (`LongerRecent`). `save_document` may count a version without a diff, for a title; then more diffs are handed out than are lacking, never fewer, and
those the editor has already are what it has in common with the row.

and about `Templates`, for any number of workers, requests and rows:

* `TemplatesServeCorrect`: `TemplatesSpec => []TemplatesServe`.
* `TemplatesTypeCorrect`: `TemplatesSpec => []TemplatesTypeOK`.

A row that a request has read may come back by its save, so what is true of rows has to be true of rows in hand: the owner of a template and the template of a style
never change (`Owned`, `Placed`). `Uncrossed` is what each request relies on once it has begun, and allows one deletion of a template and of its
styles at a time. The proof attempt found a behaviour of four requests at work at once, beyond the bounds of the run: a template is removed while a style of it is being deleted, both come back by
saves of rows read before, and then the style goes, the template's last. `collided` counts it as requests that crossed now.

and about `Library`, for any number of documents, images and requests, two at a time at most:

* `BookReadersCorrect`: `LibrarySpec => []BookReaders`.
* `ImagesFollowUseCorrect`: `LibrarySpec => []ImagesFollowUse`.
* `LibraryTypeCorrect`: `LibrarySpec => []LibraryTypeOK`.

`ReadersKept` says for every state what `BookReaders` says for requests that come one at a time. The condition stays in the property: the model adds a chapter with
its rights in one step, the code in several statements, and a share of the book in the midst of them is not what the proof is about. Of
the images, `EveryImage` says that one without a use is on the list of a request that will come to it, or was left behind or let go of too late; `ListComplete`
that a deletion which has listed the images of its rows has listed them all; `RemovedRightly` that who is about to remove an image has
looked. Here the proof found the model at fault: it gave a new image the number of one that was gone, which a request might still have on its list. No
database does; a new image's number is one that no image has and no request knows (`IsNew`).

The types of these parts say more than in which set a variable is: rows refer to rows that were made, copies and numbers in hand are ones that were
given out, no list outgrows its limit. They hold however requests cross, so they are proved from invariants of their own, about what a
request still has in hand (`AccountsBound` with `InHand`, `EnvelopesBound`), what a save may yet count (`DirectCounted`) or what a loop may yet
come to. The attempt found two assumptions too weak: `Templates` has a template at the start and `Bibliography` a second, so their bounds cannot be 0.

`MCServer_proofs`, about the parts of `server` together:

* `TypesOKCorrect`: `Spec => []TypesOK`, whichever part is chosen. A behaviour of `MCServer` is one of each of its parts, in which all but one rest (`PartsBegin`, `PartsStep`).

The invariants of `Server_proofs`, of `Bibliography` and of `Accounts` were checked by TLC first, on instances of 50 000 to 940 000 states.

Only model-checked:

* Liveness (`EmptySessionGoes`, `RevokedLeaves`, `RevokedLeave`), fairness and what is enabled. Every invariant and every action property of the
  passing runs is a theorem.

The prover cannot use theorems that take an operator as a parameter, so nothing that a recursive definition computes is proved. Nothing in the
modules with theorems, or in those they use, is declared RECURSIVE.

## 5. Not modelled

* `TokenUser` (logged-in users who come by a share token), encrypted images, and which client is asked for a snapshot.
* Deletion of a document under an open session; chat, selections and paths, which change nothing else.
* Torn reads of the instance between the database thread and the event loop.
* Both ways of editing at once (`EDITOR_SAVE_MODE` is not looked at by the consumers).
* Export templates, contents and titles of templates; categories of images; copying of books, which
  touches one row.
* `biblist`'s answer to another user of the same browser; feedback, one insert.
* Login over social accounts, sign-up, password reset: allauth's. Decoding of images, the ProseMirror libraries, the frontend and the other
  management commands: libraries, pure I/O or no behaviour over time. Texts of mails: `Overview` keeps who gets one and which right it names.

What could come next: composition of `DocumentSession` with `MessageProtocol`, so that announced diffs reach
every client in order; deletion of the document under its session.
