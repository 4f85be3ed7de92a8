------------------------------- MODULE Sharing -------------------------------
(***************************************************************************)
(* Who may do what with one document: the rows that say so, the requests   *)
(* that change them one SQL statement at a time, and the copy of its       *)
(* rights each connection keeps                                            *)
(* (src/fiduswriter/document/views.py, user/views.py, user/models.py,      *)
(* document/consumers.py, document/helpers).                               *)
(*                                                                         *)
(* People have accounts and rights of their own; guests come by a share    *)
(* link.  Of the seven levels of rights three are kept: one that may       *)
(* change the document, one that may change its comments, and one that may *)
(* change nothing.  The owner, whose rights never change, is the author of *)
(* the requests.                                                           *)
(***************************************************************************)
EXTENDS Naturals, Sequences

CONSTANTS People,       \* account holders the document may be shared with
          Guests,       \* browsers without an account, holding a share link
          Orders,       \* the lists of items one save_access_rights may carry
          Settings,     \* the set-ups considered, each with its bound: whether
                        \* AUTHORIZATION_REFRESH_INTERVAL is set, whether
                        \* the document is encrypted, how many requests are
                        \* served at a time and in all, how many connections
                        \* open and frames arrive
          Workers,      \* the most requests served at a time in any set-up
          Links         \* the levels of rights share tokens are made for

Rights == {"read", "review", "write"}
None == "none"
Levels == Rights \cup {None}

\* One item of a request: the holder, as a user or as an invitation, and the
\* right he is to have.
Item == [who : People, as : {"user", "invite"}, rights : Rights \cup {"delete"}]

ASSUME SharingAssumption ==
    /\ People \cap Guests = {}
    /\ Orders \subseteq Seq(Item)
    /\ Settings \subseteq [lazy : BOOLEAN, encrypted : BOOLEAN, workers : 1..Workers,
                             requests : Nat, connects : Nat, frames : Nat]
    /\ Workers \in Nat
    /\ Links \subseteq Rights

Conns == People \cup Guests

VARIABLES
    right,    \* the right of each person's AccessRight row
    invite,   \* each person's invitation: none, sent to an address, or linked
    invited,  \* the right of the AccessRight row held by that invitation
    token,    \* the share token of each level of rights
    request,  \* what each request in progress is doing
    conn,     \* each connection, with its own copy of its rights
    notice,   \* connections an access.changed message is queued for
    setting,  \* the set-up of the server
    requests, connects, frames  \* counters for the bounds

VARIABLES
    granted,  \* people given a right that was not taken away again
    unheard,  \* connections a change was never going to be announced to
    since     \* rights in force at some time since the last frame arrived

rows == <<right, invite, invited, token>>
counters == <<requests, connects, frames>>
vars == <<rows, request, conn, notice, setting, counters, granted, unheard, since>>

Tasks == 1..Workers
Idle == [at |-> "idle"]
Out == [at |-> "out"]
Updating == {"review", "write"}

\* The rights that may be given to a document: an encrypted one knows two.
Given(r) == setting.encrypted => r \in {"write", "read"}

\* The right a connection's holder has by the rows, before and after a step
\* that changes them.
ByToken(c, status) ==
    IF conn[c].at = "out" \/ status[conn[c].token] # "active" THEN None ELSE conn[c].token
Now(c) == IF c \in People THEN right[c] ELSE ByToken(c, token)
Then(c) == IF c \in People THEN right'[c] ELSE ByToken(c, token')

Init ==
    /\ right \in [People -> {None, "write"}]
    /\ invite \in [People -> {"none", "sent"}]
    /\ invited = [p \in People |-> None]
    /\ setting \in Settings
    /\ token \in [Links -> {"none", "active"}]
    /\ \A r \in Links : token[r] = "active" => Given(r)
    /\ request = [t \in Tasks |-> Idle]
    /\ conn = [c \in Conns |-> Out]
    /\ notice = {}
    /\ requests = 0 /\ connects = 0 /\ frames = 0
    /\ granted = {p \in People : right[p] # None}
    /\ unheard = {}
    /\ since = [c \in Conns |-> {}]

-----------------------------------------------------------------------------
(* Announcing a change.                                                    *)

\* The connections in the document's channel group.
Joined == {c \in Conns : conn[c].at \in {"in", "checking", "noticed"}}

\* What a connection is about to take for its right.
Believes(c) == IF conn[c].at = "in" THEN conn[c].right ELSE conn[c].fresh

\* Every joined connection whose right this step changes.
Overlooked == {c \in Joined : Then(c) # Now(c)}

Remember == since' = [c \in Conns |->
    IF conn[c].at = "out" THEN {} ELSE since[c] \cup {Then(c)}]

Finish(t) == request' = [request EXCEPT ![t] = Idle]

\* fault: nobody is told
AnnouncingNever(changed) == Idle

\* What a request does last: it announces what it changed.
Announcing(changed) == IF changed THEN [at |-> "tell"] ELSE Idle

\* notify_access_change: a message to the group, and the request is done.
Tell(t) ==
    /\ request[t].at = "tell"
    /\ notice' = notice \cup Joined
    /\ Finish(t)
    /\ UNCHANGED <<rows, conn, setting, counters, granted, unheard, since>>

-----------------------------------------------------------------------------
(* save_access_rights: a list of items, each in statements of its own.     *)

\* A request is taken by the first free worker.
Start(t) ==
    /\ t <= setting.workers
    /\ request[t] = Idle /\ \A u \in 1..(t - 1) : request[u] # Idle
    /\ requests < setting.requests
    /\ requests' = requests + 1

\* Other documents of the same request may have come before this one, and
\* have left a user in the variable holder.
BeginSave(t) == \E order \in Orders, usable \in {FALSE, setting.encrypted} :
    /\ Start(t)
    /\ request' = [request EXCEPT ![t] =
                      [at |-> "item", items |-> order, changed |-> FALSE, usable |-> usable]]
    /\ UNCHANGED <<rows, conn, notice, setting, connects, frames, granted, unheard, since>>

\* The row an item is about.
Row(i) == IF i.as = "user" THEN right[i.who] ELSE invited[i.who]

SetRow(i, r) ==
    IF i.as = "user" THEN right' = [right EXCEPT ![i.who] = r] /\ UNCHANGED invited
                     ELSE invited' = [invited EXCEPT ![i.who] = r] /\ UNCHANGED right

\* The row another request had read is gone: saving it inserts it anew.
Withhold(who, as, now) == [t \in Tasks |->
    IF now[t].at = "write" /\ now[t].items[1].who = who /\ now[t].items[1].as = as
    THEN [now[t] EXCEPT !.gone = TRUE] ELSE now[t]]

\* Whoever was to hear of the changes of a request that raises never will.
Raise(t) == unheard' = unheard \cup Overlooked
                \cup IF request[t].changed THEN {c \in Joined : Believes(c) # Now(c)} ELSE {}

\* An item that deletes: the row goes, and then the helper that was to look
\* at the holder's type raises, which ends the request.
DeleteItem(t) ==
    /\ request[t].at = "item" /\ request[t].items # <<>>
    /\ LET i == Head(request[t].items) IN
          /\ i.rights = "delete"
          /\ SetRow(i, None)
          /\ granted' = granted \ {i.who}
          /\ request' = Withhold(i.who, i.as, [request EXCEPT ![t] = Idle])
    /\ UNCHANGED <<invite, token, conn, notice, setting, counters>>
    /\ Raise(t)
    /\ Remember

\* An item that sets a right: its row is looked up.
ReadItem(t) ==
    /\ request[t].at = "item" /\ request[t].items # <<>>
    /\ LET i == Head(request[t].items) IN
          /\ i.rights # "delete" /\ Given(i.rights)
          /\ request' = [request EXCEPT ![t] =
                [at |-> "write", items |-> request[t].items,
                 changed |-> request[t].changed, held |-> Row(i), gone |-> FALSE,
                 usable |-> request[t].usable]]
    /\ UNCHANGED <<rows, conn, notice, setting, counters, granted, unheard, since>>

NextItem(t, changed, usable) == request' = [request EXCEPT ![t] =
    [at |-> "item", items |-> Tail(request[t].items), changed |-> changed,
     usable |-> usable]]

\* A right an encrypted document does not know is passed over,
PassItem(t) ==
    /\ request[t].at = "item" /\ request[t].items # <<>>
    /\ LET i == Head(request[t].items) IN i.rights # "delete" /\ ~Given(i.rights)
    /\ NextItem(t, request[t].changed, request[t].usable)
    /\ UNCHANGED <<rows, conn, notice, setting, counters, granted, unheard, since>>

\* and so is a holder without an account or invitation.
SkipItem(t) ==
    /\ request[t].at = "write"
    /\ LET i == Head(request[t].items) IN
          request[t].held = None /\ i.as = "invite" /\ invite[i.who] = "none"
    /\ NextItem(t, request[t].changed, TRUE)
    /\ UNCHANGED <<rows, conn, notice, setting, counters, granted, unheard, since>>

\* The row is created, or saved: as the one that was read, or, when that one
\* is gone, as a new one.
SaveItem(t) ==
    /\ request[t].at = "write"
    /\ LET i == Head(request[t].items) IN
          /\ request[t].held = None => i.as = "user" \/ invite[i.who] # "none"
          /\ request[t].held = None \/ request[t].gone => Row(i) = None
          /\ SetRow(i, i.rights)
          /\ granted' = granted \cup {i.who}
    /\ UNCHANGED <<invite, token, conn, notice, setting, counters>>
    /\ Remember

\* The variable holder after an item: only creating a row sets it.  The
\* lookup of a user's keys can do with a user, not with an invitation.
Usable(t) == IF request[t].held = None THEN Head(request[t].items).as = "user"
                                       ELSE request[t].usable
Looks(t) == setting.encrypted /\ Head(request[t].items).as = "user"

WriteItem(t) ==
    /\ SaveItem(t)
    /\ Looks(t) => Usable(t)
    /\ NextItem(t, TRUE, Usable(t))
    /\ UNCHANGED unheard

\* The right of an encrypted document's user is changed, and then holder is
\* used: it is unbound, or an invitation, and the request raises.
BreakOff(t) ==
    /\ SaveItem(t)
    /\ Looks(t) /\ ~Usable(t)
    /\ Finish(t)
    /\ Raise(t)

\* Somebody else has created the row: the database refuses a second one.
RefuseItem(t) ==
    /\ request[t].at = "write"
    /\ request[t].held = None \/ request[t].gone
    /\ LET i == Head(request[t].items) IN
          Row(i) # None /\ (i.as = "invite" => invite[i.who] # "none")
    /\ Finish(t)
    /\ UNCHANGED <<rows, conn, notice, setting, counters, granted, since>>
    /\ Raise(t)

EndSave(t) ==
    /\ request[t].at = "item" /\ request[t].items = <<>>
    /\ request' = [request EXCEPT ![t] = Announcing(request[t].changed)]
    /\ UNCHANGED <<rows, conn, notice, setting, counters, granted, unheard, since>>

-----------------------------------------------------------------------------
(* delete_contacts, by either side: the documents concerned are collected, *)
(* the rights deleted, and the documents announced.                        *)

BeginUnlink(t) == \E p \in People :
    /\ Start(t)
    /\ request' = [request EXCEPT ![t] =
                      [at |-> "unlink", who |-> p, affected |-> right[p] # None]]
    /\ UNCHANGED <<rows, conn, notice, setting, connects, frames, granted, unheard, since>>

Unlink(t) ==
    /\ request[t].at = "unlink"
    /\ LET p == request[t].who IN
          /\ right' = [right EXCEPT ![p] = None]
          /\ granted' = granted \ {p}
          /\ request' = Withhold(p, "user",
                [request EXCEPT ![t] = Announcing(request[t].affected)])
    /\ UNCHANGED <<invite, invited, token, conn, notice, setting, counters>>
    /\ unheard' = IF request[t].affected THEN unheard ELSE unheard \cup Overlooked
    /\ Remember

-----------------------------------------------------------------------------
(* Invitations.                                                            *)

\* invites_add: to the account of that name or address, if there is one.
Invite(t) == \E p \in People, to \in {"sent", "linked"} :
    /\ Start(t)
    /\ invite[p] = "none"
    /\ invite' = [invite EXCEPT ![p] = to]
    /\ UNCHANGED <<right, invited, token, request, conn, notice, setting, connects, frames,
                   granted, unheard, since>>

\* invites_connect, at sign-up, confirmation of an address, or by the key.
Connect(p) ==
    /\ invite[p] = "sent"
    /\ invite' = [invite EXCEPT ![p] = "linked"]
    /\ UNCHANGED <<right, invited, token, request, conn, notice, setting, counters,
                   granted, unheard, since>>

\* invite_decline, or the inviter takes it back: its rows go with it.
Decline(t) == \E p \in People :
    /\ Start(t)
    /\ invite[p] # "none"
    /\ invite' = [invite EXCEPT ![p] = "none"]
    /\ invited' = [invited EXCEPT ![p] = None]
    /\ granted' = IF right[p] = None THEN granted \ {p} ELSE granted
    /\ request' = Withhold(p, "invite", request)
    /\ UNCHANGED <<right, token, conn, notice, setting, connects, frames, unheard, since>>

\* fault: the invitation is deleted, and its rows with it, before they are
\* listed
BeginAcceptLate(t) == \E p \in People :
    /\ Start(t)
    /\ invite[p] = "linked"
    /\ request' = [request EXCEPT ![t] = [at |-> "apply", who |-> p, brought |-> None]]
    /\ UNCHANGED <<rows, conn, notice, setting, connects, frames, granted, unheard, since>>

\* UserInvite.apply: the rows of the invitation are listed, ...
BeginAccept(t) == \E p \in People :
    /\ Start(t)
    /\ invite[p] = "linked"
    /\ request' = [request EXCEPT ![t] = [at |-> "apply", who |-> p, brought |-> invited[p]]]
    /\ UNCHANGED <<rows, conn, notice, setting, connects, frames, granted, unheard, since>>

\* ... compared with the right the person has already, ...
Compare(t) ==
    /\ request[t].at = "apply"
    /\ LET p == request[t].who
           b == request[t].brought
           next == IF b = None THEN [at |-> "leave", who |-> p, give |-> None, tell |-> FALSE]
                   ELSE IF right[p] = None THEN [at |-> "drop", who |-> p, give |-> b, tell |-> TRUE]
                   ELSE [at |-> "merge", who |-> p, brought |-> b, held |-> right[p]]
       IN request' = [request EXCEPT ![t] = next]
    /\ UNCHANGED <<rows, conn, notice, setting, counters, granted, unheard, since>>

\* ... which is replaced unless it may write or the invitation only reads, ...
Replaced(held, brought) ==
    IF brought = "read" \/ held = "write" THEN held ELSE brought

Merge(t) ==
    /\ request[t].at = "merge"
    /\ LET p == request[t].who
           r == Replaced(request[t].held, request[t].brought)
       IN /\ right' = IF r = request[t].held THEN right ELSE [right EXCEPT ![p] = r]
          /\ granted' = IF r = request[t].held THEN granted ELSE granted \cup {p}
          /\ request' = [request EXCEPT ![t] =
                            [at |-> "drop", who |-> p, give |-> None, tell |-> TRUE]]
    /\ UNCHANGED <<invite, invited, token, conn, notice, setting, counters, unheard>>
    /\ Remember

\* ... the row of the invitation is deleted, ...
DropRight(t) ==
    /\ request[t].at = "drop"
    /\ LET p == request[t].who IN
          /\ invited' = [invited EXCEPT ![p] = None]
          /\ request' = Withhold(p, "invite", [request EXCEPT ![t].at = "leave"])
    /\ UNCHANGED <<right, invite, token, conn, notice, setting, counters, granted, unheard, since>>

\* ... the invitation itself, with any row it got since, ...
DropInvite(t) ==
    /\ request[t].at = "leave"
    /\ LET p == request[t].who IN
          /\ invite' = [invite EXCEPT ![p] = "none"]
          /\ invited' = [invited EXCEPT ![p] = None]
          /\ request' = Withhold(p, "invite", [request EXCEPT ![t].at = "give"])
    /\ UNCHANGED <<right, token, conn, notice, setting, counters, granted, unheard, since>>

\* ... and the right is given to the person: unless one was created
\* meanwhile, which the database refuses.
Give(t) ==
    /\ request[t].at = "give"
    /\ LET p == request[t].who
           g == request[t].give
       IN /\ right' = IF g # None /\ right[p] = None THEN [right EXCEPT ![p] = g] ELSE right
          /\ request' = [request EXCEPT ![t] =
                Announcing(request[t].tell /\ (g = None \/ right[p] = None))]
    /\ UNCHANGED <<invite, invited, token, conn, notice, setting, counters, granted, unheard>>
    /\ Remember

-----------------------------------------------------------------------------
(* Share tokens.  A token that was revoked or has expired keeps its row,   *)
(* and the row is the only one its level of rights may have.               *)

CreateToken(t) == \E r \in Links :
    /\ Start(t)
    /\ token[r] = "none" /\ Given(r)
    /\ token' = [token EXCEPT ![r] = "active"]
    /\ UNCHANGED <<right, invite, invited, request, conn, notice, setting, connects, frames,
                   granted, unheard, since>>

RevokeToken(t) == \E r \in Links :
    /\ Start(t)
    /\ token[r] \in {"active", "expired"}
    /\ token' = [token EXCEPT ![r] = "revoked"]
    /\ request' = [request EXCEPT ![t] = Announcing(TRUE)]
    /\ UNCHANGED <<right, invite, invited, conn, notice, setting, connects, frames,
                   granted, unheard>>
    /\ Remember

\* Time passes; nobody is told.
ExpireToken(r) ==
    /\ token[r] = "active"
    /\ token' = [token EXCEPT ![r] = "expired"]
    /\ UNCHANGED <<right, invite, invited, request, conn, notice, setting, counters, granted>>
    /\ unheard' = unheard \cup Overlooked
    /\ Remember

-----------------------------------------------------------------------------
(* Connections.                                                            *)

Set(c, state) == conn' = [conn EXCEPT ![c] = state]

\* The socket is closed, and disconnect leaves the group.
Close(c) ==
    /\ Set(c, Out)
    /\ notice' = notice \ {c}
    /\ unheard' = unheard \ {c}
    /\ since' = [since EXCEPT ![c] = {}]

\* A guest's token is looked up when the socket opens, ...
OpenGuest(c) == \E r \in Links :
    /\ c \in Guests /\ conn[c].at = "out"
    /\ connects < setting.connects /\ connects' = connects + 1
    /\ token[r] = "active"
    /\ Set(c, [at |-> "reading", right |-> r, token |-> r, checked |-> FALSE])
    /\ UNCHANGED <<rows, request, notice, setting, requests, frames, granted, unheard, since>>

\* ... a person's right when the document is asked for (init_access); both
\* may change before the connection is in the group.
OpenPerson(c) ==
    /\ c \in People /\ conn[c].at = "out"
    /\ connects < setting.connects /\ connects' = connects + 1
    /\ right[c] # None
    /\ Set(c, [at |-> "reading", right |-> right[c], token |-> None,
              checked |-> FALSE])
    /\ UNCHANGED <<rows, request, notice, setting, requests, frames, granted, unheard, since>>

\* join_document_group, at the end of subscribe's work on the session.
Enter(c) ==
    /\ conn[c].at = "reading"
    /\ Set(c, [conn[c] EXCEPT !.at = "in"])
    /\ unheard' = IF Now(c) = conn[c].right THEN unheard ELSE unheard \cup {c}
    /\ since' = [since EXCEPT ![c] = {Now(c)}]
    /\ UNCHANGED <<rows, request, notice, setting, counters, granted>>

Asking(c, at, fresh) == [at |-> at, right |-> conn[c].right, token |-> conn[c].token,
                         checked |-> conn[c].checked, fresh |-> fresh]

\* fault: the connection asks its own copy
RefreshStale(c, at) ==
    /\ conn[c].at = "in"
    /\ conn' = [conn EXCEPT ![c] = Asking(c, at, conn[c].right)]
    /\ unheard' = unheard \ {c}

\* refresh_authorization: the rights are read, and arrive at the event loop
\* some time later.
Refresh(c, at) ==
    /\ conn[c].at = "in"
    /\ conn' = [conn EXCEPT ![c] = Asking(c, at, Now(c))]
    /\ unheard' = unheard \ {c}

\* A frame that changes the document.
Frame(c) ==
    /\ frames < setting.frames /\ frames' = frames + 1
    /\ Refresh(c, "checking")
    /\ since' = [since EXCEPT ![c] = {Now(c)}]
    /\ UNCHANGED <<rows, request, notice, setting, requests, connects, granted>>

\* With a refresh interval, rights read not long ago are used again.
FrameOnCachedRights(c) ==
    /\ setting.lazy
    /\ conn[c].at = "in" /\ conn[c].checked
    /\ frames < setting.frames /\ frames' = frames + 1
    /\ conn' = [conn EXCEPT ![c] = Asking(c, "checking", conn[c].right)]
    /\ since' = [since EXCEPT ![c] = {Now(c)}]
    /\ UNCHANGED <<rows, request, notice, setting, requests, connects, granted, unheard>>

\* access_changed.
Notice(c) ==
    /\ c \in notice
    /\ Refresh(c, "noticed")
    /\ notice' = notice \ {c}
    /\ UNCHANGED <<rows, request, setting, counters, granted, since>>

\* fault: the answer to a notice is not acted upon
DenyFrames(c) ==
    /\ conn[c].at = "checking" /\ conn[c].fresh = None
    /\ Close(c)
    /\ UNCHANGED <<rows, request, setting, counters, granted>>

\* Whatever it was read for, an answer without a right closes the
\* connection; any other becomes the connection's right.
Deny(c) ==
    /\ conn[c].at \in {"checking", "noticed"} /\ conn[c].fresh = None
    /\ Close(c)
    /\ UNCHANGED <<rows, request, setting, counters, granted>>

Return(c) ==
    /\ Set(c, [at |-> "in", right |-> conn[c].fresh, token |-> conn[c].token,
              checked |-> TRUE])
    /\ UNCHANGED <<rows, request, notice, setting, counters, granted, unheard, since>>

Permit(c) == conn[c].at = "noticed" /\ conn[c].fresh # None /\ Return(c)

\* The change is handled,
Handle(c) ==
    /\ conn[c].at = "checking" /\ conn[c].fresh \in Updating
    /\ Return(c)

\* or not looked at.
Ignore(c) ==
    /\ conn[c].at = "checking" /\ conn[c].fresh \in Rights \ Updating
    /\ Return(c)

Leave(c) ==
    /\ conn[c].at \in {"reading", "in"}
    /\ Close(c)
    /\ UNCHANGED <<rows, request, setting, counters, granted>>

-----------------------------------------------------------------------------
SaveStep(t) == DeleteItem(t) \/ ReadItem(t) \/ PassItem(t) \/ SkipItem(t) \/ WriteItem(t)
                 \/ BreakOff(t) \/ RefuseItem(t) \/ EndSave(t)
AcceptStep(t) == Compare(t) \/ Merge(t) \/ DropRight(t) \/ DropInvite(t) \/ Give(t)
RequestStep(t) == SaveStep(t) \/ Unlink(t) \/ AcceptStep(t) \/ Tell(t)
NewRequest(t) == BeginSave(t) \/ BeginUnlink(t) \/ Invite(t) \/ Decline(t)
                   \/ BeginAccept(t) \/ CreateToken(t) \/ RevokeToken(t)
Answer(c) == Deny(c) \/ Permit(c) \/ Handle(c) \/ Ignore(c)

Next ==
    \/ \E t \in Tasks : NewRequest(t) \/ RequestStep(t)
    \/ \E p \in People : Connect(p)
    \/ \E r \in Links : ExpireToken(r)
    \/ \E c \in Conns : OpenGuest(c) \/ OpenPerson(c) \/ Enter(c) \/ Frame(c)
                           \/ FrameOnCachedRights(c) \/ Notice(c) \/ Answer(c) \/ Leave(c)

\* A request under way is served to its end, and a consumer's queue of
\* channel messages is read, one message after the other.
Fairness ==
    /\ \A t \in Tasks : WF_vars(RequestStep(t))
    /\ \A c \in Conns : WF_vars(Answer(c)) /\ WF_vars(Notice(c))

Spec == Init /\ [][Next]_vars /\ Fairness

-----------------------------------------------------------------------------
\* A request that changed rows and has not announced it.
Untold(r) == \/ r.at = "tell"
             \/ r.at \in {"item", "write"} /\ r.changed
             \/ r.at \in {"drop", "leave", "give"} /\ r.tell
Dirty == \E t \in Tasks : Untold(request[t])

\* The copy a connection keeps of its rights is the truth, unless a notice is
\* on its way or the change is one the code announces to nobody: a token that
\* expired, a request that raised (an item that deletes, a row somebody else
\* created, a user's right to an encrypted document that is changed), a right
\* given while delete_contacts was already past its list, a change while the
\* connection was opening
\* (notify_access_change, access_changed, refresh_authorization).
UpToDate == \A c \in Conns :
    conn[c].at = "in" /\ c \notin notice /\ c \notin unheard /\ ~Dirty
        => conn[c].right = Now(c)

\* Nobody changes the document on a right that was taken away before the
\* change arrived; with a refresh interval, unless the news of it is still
\* on its way or was never sent (handle_message).
ChangesAuthorized == [][\A c \in Conns : Handle(c) =>
    \/ since[c] \cap Updating # {}
    \/ setting.lazy /\ (c \in unheard \/ c \in notice \/ Dirty)]_vars

\* Whoever loses the last right to a document is put out of it, unless
\* nobody is told (access_changed, access_denied).
RevokedLeave == \A c \in Conns :
    (conn[c].at = "in" /\ Now(c) = None /\ c \notin unheard)
        ~> (conn[c].at = "out" \/ c \in unheard \/ Now(c) # None)

\* A right that was granted is never lost on the way from an invitation to
\* the account that accepts it, while requests come one at a time
\* (UserInvite.apply, save_access_rights).
GrantKept == setting.workers = 1 => \A p \in granted :
    \/ right[p] # None
    \/ invited[p] # None /\ invite[p] # "none"
    \/ \E t \in Tasks : request[t].at \in {"leave", "give"}
                          /\ request[t].who = p /\ request[t].give # None
=============================================================================
